---- MODULE Spec2Model ----
(***************************************************************************)
(* A model of wled00/ir.cpp: infra-red remote control support.             *)
(*                                                                         *)
(* handleIR() is called from the main loop.  It owns the IRrecv decoder,   *)
(* polls it at most every 120ms, and hands a received code to              *)
(* handleIRCode(), which looks the code up in the KeyMap array of the      *)
(* configured remote and calls the Action found; Action::operator() does   *)
(* the repeat/debounce bookkeeping before it calls the action function.    *)
(*                                                                         *)
(* Modelling conventions                                                   *)
(*  - An IR code is an opaque token: the code compares codes for equality  *)
(*    and against 0 only.  The codes of the KeyMap arrays are the macros   *)
(*    of ir_codes.h, written here by name; they are taken to be non-zero,  *)
(*    different from 0xFFFFFFFF and pairwise different within one array.   *)
(*  - A decode result is 64 bits wide; [hi, lo] keeps whether its upper 32 *)
(*    bits are zero (hi = 0) and the token of its lower 32 bits.           *)
(*  - millis() is the variable now.  It only grows (the Clock contract of  *)
(*    the design is a monotonic millisecond counter) and stays below       *)
(*    MaxTime, so the unsigned subtraction millis() - x never wraps here.  *)
(*  - The device collaborators (effect engine, presets, notifier, IRrecv)  *)
(*    are outside this file.  Every call a handleIR() step makes to them   *)
(*    is appended, in program order, to the call log ev.calls.             *)
(***************************************************************************)
EXTENDS Integers, Sequences, FiniteSets, TLC

\* ------------------------------------------------------------------------
\* Bounds of the model
\* ------------------------------------------------------------------------

\* millis() is explored up to this reading.
MaxTime == 760

\* The clock advances between two steps by one of these amounts (ms).
TickSteps == {60, 500}

\* Time taken by an action function and colorUpdated() (ms).
OpDurations == {0, 60}

\* ------------------------------------------------------------------------
\* Program constants
\* ------------------------------------------------------------------------

\* (millis() - _last_action_time) < 500
DebounceMs == 500

\* millis() - irCheckedTime < 120
PollIntervalMs == 120

\* uint8_t _repeat_count
Uint8Range == 256

\* The irCode of the null entry that ends every KeyMap array.
NullCode == "0x00000000"

\* The repeat code of handleIRCode().
RepeatCode == "0xFFFFFFFF"

\* Action* _lastRepeatableAction = 0: no Action.
NullAction == -1

\* ------------------------------------------------------------------------
\* enum ActionType, struct Action and the actions array
\* ------------------------------------------------------------------------

ActionTypeEnum ==
  <<
    "Action_PowerOff", "Action_PowerOn", "Action_PowerToggle",
    "Action_PowerOffWhite", "Action_PowerOnWhite", "Action_PowerToggleWhite",
    "Action_Bright_Up", "Action_Bright_Down", "Action_Bright_25",
    "Action_Bright_50", "Action_Bright_75", "Action_Bright_100",
    "Action_White_Bright_Up", "Action_White_Bright_Down", "Action_Speed_Up",
    "Action_Speed_Down", "Action_Intensity_Up", "Action_Intensity_Down",
    "Action_Preset_1", "Action_Preset_2", "Action_Preset_3",
    "Action_Preset_4", "Action_Preset_5", "Action_Preset_6",
    "Action_Preset_7", "Action_Preset_8", "Action_Preset_9",
    "Action_Preset_10", "Action_Preset_Next", "Action_Preset_Prev",
    "Action_Palette_Next", "Action_Palette_Prev", "Action_Color_Aqua",
    "Action_Color_Blue", "Action_Color_ColdWhite", "Action_Color_ColdWhite2",
    "Action_Color_Cyan", "Action_Color_Deepblue", "Action_Color_Green",
    "Action_Color_Greenish", "Action_Color_Magenta",
    "Action_Color_NeutralWhite", "Action_Color_Orange", "Action_Color_Pink",
    "Action_Color_Purple", "Action_Color_Red", "Action_Color_Reddish",
    "Action_Color_Turquoise", "Action_Color_WarmWhite",
    "Action_Color_WarmWhite2", "Action_Color_White", "Action_Color_Yellow",
    "Action_Color_Yellowish", "Action_Color_Rotate"
  >>

Action_Count == Len(ActionTypeEnum)

\* The value of the enumerator `name` (enumerators count from 0).
AT(name) == (CHOOSE i \in 1..Len(ActionTypeEnum) : ActionTypeEnum[i] = name) - 1

ActionTypes == 0..(Action_Count - 1)

\* struct Action: the name, the function performing it, whether it repeats.
Action(name, action_fn, is_repeatable) ==
  [name |-> name, action_fn |-> action_fn, is_repeatable |-> is_repeatable]

actions ==
  <<
    Action("Power Off", "powerOff", FALSE),
    Action("Power On", "powerOn", FALSE),
    Action("Power Toggle", "toggleOnOff", FALSE),
    Action("Power Off White (for RGBW)", "powerOffWhite", FALSE),
    Action("Power On White (for RGBW)", "powerOnWhite", FALSE),
    Action("Power Toggle White (for RGBW)", "toggleOnOffWhite", FALSE),
    Action("Brightness Up", "incBri", TRUE),
    Action("Brightness Down", "decBri", TRUE),
    Action("Brightness 25%", "setBri25", FALSE),
    Action("Brightness 50%", "setBri50", FALSE),
    Action("Brightness 75%", "setBri75", FALSE),
    Action("Brightness 100%", "setBri100", FALSE),
    Action("White Brightness Up (for RGBW)", "incCol3", TRUE),
    Action("White Brightness Down (for RGBW)", "decCol3", TRUE),
    Action("Speed Up", "incEffectSpeed", TRUE),
    Action("Speed Down", "decEffectSpeed", TRUE),
    Action("Intensity Up", "incEffectIntensity", TRUE),
    Action("Intensity Down", "decEffectIntensity", TRUE),
    Action("Preset 1", "actionApplyPreset1", FALSE),
    Action("Preset 2", "actionApplyPreset2", FALSE),
    Action("Preset 3", "actionApplyPreset3", FALSE),
    Action("Preset 4", "actionApplyPreset4", FALSE),
    Action("Preset 5", "actionApplyPreset5", FALSE),
    Action("Preset 6", "actionApplyPreset6", FALSE),
    Action("Preset 7", "actionApplyPreset7", FALSE),
    Action("Preset 8", "actionApplyPreset8", FALSE),
    Action("Preset 9", "actionApplyPreset9", FALSE),
    Action("Preset 10", "actionApplyPreset10", FALSE),
    Action("Next Preset", "actionIncPreset", FALSE),
    Action("Prev Preset", "actionDecPreset", FALSE),
    Action("Next Palette", "actionIncPalette", FALSE),
    Action("Prev Palette", "actionDecPalette", FALSE),
    Action("Aqua", "actionColorAqua", FALSE),
    Action("Blue", "actionColorBlue", FALSE),
    Action("ColdWhite", "actionColorColdwhite", FALSE),
    Action("ColdWhite2", "actionColorColdwhite2", FALSE),
    Action("Cyan", "actionColorCyan", FALSE),
    Action("Deepblue", "actionColorDeepblue", FALSE),
    Action("Green", "actionColorGreen", FALSE),
    Action("Greenish", "actionColorGreenish", FALSE),
    Action("Magenta", "actionColorMagenta", FALSE),
    Action("NeutralWhite", "actionColorNeutralWhite", FALSE),
    Action("Orange", "actionColorOrange", FALSE),
    Action("Pink", "actionColorPink", FALSE),
    Action("Purple", "actionColorPurple", FALSE),
    Action("Red", "actionColorRed", FALSE),
    Action("Reddish", "actionColorReddish", FALSE),
    Action("Turquoise", "actionColorTurquoise", FALSE),
    Action("WarmWhite", "actionColorWarmWhite", FALSE),
    Action("WarmWhite2", "actionColorWarmWhite2", FALSE),
    Action("White", "actionColorWhite", FALSE),
    Action("Yellow", "actionColorYellow", FALSE),
    Action("Yellowish", "actionColorYellowish", FALSE),
    Action("Rotate Colors", "actionColorRotate", FALSE)
  >>

\* actions[actionType]: C arrays count from 0, sequences from 1.
ActionOf(actionType) == actions[actionType + 1]

\* ------------------------------------------------------------------------
\* struct KeyMap and the KeyMap array of each remote
\* ------------------------------------------------------------------------

KeyMap(irCode, actionType) == [irCode |-> irCode, actionType |-> actionType]

\* {}: a value-initialised KeyMap, irCode 0 and the first enumerator.
NullEntry == KeyMap(NullCode, 0)

IR24_Actions ==
  <<
    KeyMap("IR24_BRIGHTER", AT("Action_Bright_Up")),
    KeyMap("IR24_DARKER", AT("Action_Bright_Down")),
    KeyMap("IR24_OFF", AT("Action_PowerOff")),
    KeyMap("IR24_ON", AT("Action_PowerOn")),
    KeyMap("IR24_RED", AT("Action_Color_Red")),
    KeyMap("IR24_REDDISH", AT("Action_Color_Reddish")),
    KeyMap("IR24_ORANGE", AT("Action_Color_Orange")),
    KeyMap("IR24_YELLOWISH", AT("Action_Color_Yellowish")),
    KeyMap("IR24_YELLOW", AT("Action_Color_Yellow")),
    KeyMap("IR24_GREEN", AT("Action_Color_Green")),
    KeyMap("IR24_GREENISH", AT("Action_Color_Greenish")),
    KeyMap("IR24_TURQUOISE", AT("Action_Color_Turquoise")),
    KeyMap("IR24_CYAN", AT("Action_Color_Cyan")),
    KeyMap("IR24_AQUA", AT("Action_Color_Aqua")),
    KeyMap("IR24_BLUE", AT("Action_Color_Blue")),
    KeyMap("IR24_DEEPBLUE", AT("Action_Color_Deepblue")),
    KeyMap("IR24_PURPLE", AT("Action_Color_Purple")),
    KeyMap("IR24_MAGENTA", AT("Action_Color_Magenta")),
    KeyMap("IR24_PINK", AT("Action_Color_Pink")),
    KeyMap("IR24_WHITE", AT("Action_Color_White")),
    KeyMap("IR24_FLASH", AT("Action_Preset_1")),
    KeyMap("IR24_STROBE", AT("Action_Preset_2")),
    KeyMap("IR24_FADE", AT("Action_Preset_3")),
    KeyMap("IR24_SMOOTH", AT("Action_Preset_4")),
    NullEntry
  >>

IR24_Old_Actions ==
  <<
    KeyMap("IR24_OLD_BRIGHTER", AT("Action_Bright_Up")),
    KeyMap("IR24_OLD_DARKER", AT("Action_Bright_Down")),
    KeyMap("IR24_OLD_OFF", AT("Action_PowerOff")),
    KeyMap("IR24_OLD_ON", AT("Action_PowerOn")),
    KeyMap("IR24_OLD_RED", AT("Action_Color_Red")),
    KeyMap("IR24_OLD_REDDISH", AT("Action_Color_Reddish")),
    KeyMap("IR24_OLD_ORANGE", AT("Action_Color_Orange")),
    KeyMap("IR24_OLD_YELLOWISH", AT("Action_Color_Yellowish")),
    KeyMap("IR24_OLD_YELLOW", AT("Action_Color_Yellow")),
    KeyMap("IR24_OLD_GREEN", AT("Action_Color_Green")),
    KeyMap("IR24_OLD_GREENISH", AT("Action_Color_Greenish")),
    KeyMap("IR24_OLD_TURQUOISE", AT("Action_Color_Turquoise")),
    KeyMap("IR24_OLD_CYAN", AT("Action_Color_Cyan")),
    KeyMap("IR24_OLD_AQUA", AT("Action_Color_Aqua")),
    KeyMap("IR24_OLD_BLUE", AT("Action_Color_Blue")),
    KeyMap("IR24_OLD_DEEPBLUE", AT("Action_Color_Deepblue")),
    KeyMap("IR24_OLD_PURPLE", AT("Action_Color_Purple")),
    KeyMap("IR24_OLD_MAGENTA", AT("Action_Color_Magenta")),
    KeyMap("IR24_OLD_PINK", AT("Action_Color_Pink")),
    KeyMap("IR24_OLD_WHITE", AT("Action_Color_White")),
    KeyMap("IR24_OLD_FLASH", AT("Action_Preset_1")),
    KeyMap("IR24_OLD_STROBE", AT("Action_Preset_2")),
    KeyMap("IR24_OLD_FADE", AT("Action_Preset_3")),
    KeyMap("IR24_OLD_SMOOTH", AT("Action_Preset_4")),
    NullEntry
  >>

IR24CT_Actions ==
  <<
    KeyMap("IR24_CT_BRIGHTER", AT("Action_Bright_Up")),
    KeyMap("IR24_CT_DARKER", AT("Action_Bright_Down")),
    KeyMap("IR24_CT_OFF", AT("Action_PowerOff")),
    KeyMap("IR24_CT_ON", AT("Action_PowerOn")),
    KeyMap("IR24_CT_RED", AT("Action_Color_Red")),
    KeyMap("IR24_CT_REDDISH", AT("Action_Color_Reddish")),
    KeyMap("IR24_CT_ORANGE", AT("Action_Color_Orange")),
    KeyMap("IR24_CT_YELLOWISH", AT("Action_Color_Yellowish")),
    KeyMap("IR24_CT_YELLOW", AT("Action_Color_Yellow")),
    KeyMap("IR24_CT_GREEN", AT("Action_Color_Green")),
    KeyMap("IR24_CT_GREENISH", AT("Action_Color_Greenish")),
    KeyMap("IR24_CT_TURQUOISE", AT("Action_Color_Turquoise")),
    KeyMap("IR24_CT_CYAN", AT("Action_Color_Cyan")),
    KeyMap("IR24_CT_AQUA", AT("Action_Color_Aqua")),
    KeyMap("IR24_CT_BLUE", AT("Action_Color_Blue")),
    KeyMap("IR24_CT_DEEPBLUE", AT("Action_Color_Deepblue")),
    KeyMap("IR24_CT_PURPLE", AT("Action_Color_Purple")),
    KeyMap("IR24_CT_MAGENTA", AT("Action_Color_Magenta")),
    KeyMap("IR24_CT_PINK", AT("Action_Color_Pink")),
    KeyMap("IR24_CT_COLDWHITE", AT("Action_Color_ColdWhite")),
    KeyMap("IR24_CT_WARMWHITE", AT("Action_Color_WarmWhite")),
    KeyMap("IR24_CT_CTPLUS", AT("Action_Color_ColdWhite2")),
    KeyMap("IR24_CT_CTMINUS", AT("Action_Color_WarmWhite2")),
    KeyMap("IR24_CT_MEMORY", AT("Action_Color_NeutralWhite")),
    NullEntry
  >>

IR40_Actions ==
  <<
    KeyMap("IR40_BPLUS", AT("Action_Bright_Up")),
    KeyMap("IR40_BMINUS", AT("Action_Bright_Down")),
    KeyMap("IR40_OFF", AT("Action_PowerOff")),
    KeyMap("IR40_ON", AT("Action_PowerOn")),
    KeyMap("IR40_RED", AT("Action_Color_Red")),
    KeyMap("IR40_REDDISH", AT("Action_Color_Reddish")),
    KeyMap("IR40_ORANGE", AT("Action_Color_Orange")),
    KeyMap("IR40_YELLOWISH", AT("Action_Color_Yellowish")),
    KeyMap("IR40_YELLOW", AT("Action_Color_Yellow")),
    KeyMap("IR40_GREEN", AT("Action_Color_Green")),
    KeyMap("IR40_GREENISH", AT("Action_Color_Greenish")),
    KeyMap("IR40_TURQUOISE", AT("Action_Color_Turquoise")),
    KeyMap("IR40_CYAN", AT("Action_Color_Cyan")),
    KeyMap("IR40_AQUA", AT("Action_Color_Aqua")),
    KeyMap("IR40_BLUE", AT("Action_Color_Blue")),
    KeyMap("IR40_DEEPBLUE", AT("Action_Color_Deepblue")),
    KeyMap("IR40_PURPLE", AT("Action_Color_Purple")),
    KeyMap("IR40_MAGENTA", AT("Action_Color_Magenta")),
    KeyMap("IR40_PINK", AT("Action_Color_Pink")),
    KeyMap("IR40_WARMWHITE2", AT("Action_Color_WarmWhite2")),
    KeyMap("IR40_WARMWHITE", AT("Action_Color_WarmWhite")),
    KeyMap("IR40_WHITE", AT("Action_Color_White")),
    KeyMap("IR40_COLDWHITE", AT("Action_Color_ColdWhite")),
    KeyMap("IR40_COLDWHITE2", AT("Action_Color_ColdWhite2")),
    KeyMap("IR40_WOFF", AT("Action_PowerOffWhite")),
    KeyMap("IR40_WON", AT("Action_PowerOnWhite")),
    KeyMap("IR40_WPLUS", AT("Action_White_Bright_Up")),
    KeyMap("IR40_WMINUS", AT("Action_White_Bright_Down")),
    KeyMap("IR40_W25", AT("Action_Bright_25")),
    KeyMap("IR40_W50", AT("Action_Bright_50")),
    KeyMap("IR40_W75", AT("Action_Bright_75")),
    KeyMap("IR40_W100", AT("Action_Bright_100")),
    KeyMap("IR40_QUICK", AT("Action_Speed_Up")),
    KeyMap("IR40_SLOW", AT("Action_Speed_Down")),
    KeyMap("IR40_JUMP7", AT("Action_Intensity_Up")),
    KeyMap("IR40_AUTO", AT("Action_Intensity_Down")),
    KeyMap("IR40_JUMP3", AT("Action_Preset_1")),
    KeyMap("IR40_FADE3", AT("Action_Preset_2")),
    KeyMap("IR40_FADE7", AT("Action_Preset_3")),
    KeyMap("IR40_FLASH", AT("Action_Preset_4")),
    NullEntry
  >>

IR44_Actions ==
  <<
    KeyMap("IR44_BPLUS", AT("Action_Bright_Up")),
    KeyMap("IR44_BMINUS", AT("Action_Bright_Down")),
    KeyMap("IR44_OFF", AT("Action_PowerOn")),
    KeyMap("IR44_ON", AT("Action_PowerOff")),
    KeyMap("IR44_RED", AT("Action_Color_Red")),
    KeyMap("IR44_REDDISH", AT("Action_Color_Reddish")),
    KeyMap("IR44_ORANGE", AT("Action_Color_Orange")),
    KeyMap("IR44_YELLOWISH", AT("Action_Color_Yellowish")),
    KeyMap("IR44_YELLOW", AT("Action_Color_Yellow")),
    KeyMap("IR44_GREEN", AT("Action_Color_Green")),
    KeyMap("IR44_GREENISH", AT("Action_Color_Greenish")),
    KeyMap("IR44_TURQUOISE", AT("Action_Color_Turquoise")),
    KeyMap("IR44_CYAN", AT("Action_Color_Cyan")),
    KeyMap("IR44_AQUA", AT("Action_Color_Aqua")),
    KeyMap("IR44_BLUE", AT("Action_Color_Blue")),
    KeyMap("IR44_DEEPBLUE", AT("Action_Color_Deepblue")),
    KeyMap("IR44_PURPLE", AT("Action_Color_Purple")),
    KeyMap("IR44_MAGENTA", AT("Action_Color_Magenta")),
    KeyMap("IR44_PINK", AT("Action_Color_Pink")),
    KeyMap("IR44_WHITE", AT("Action_Color_White")),
    KeyMap("IR44_WARMWHITE2", AT("Action_Color_WarmWhite2")),
    KeyMap("IR44_WARMWHITE", AT("Action_Color_WarmWhite")),
    KeyMap("IR44_COLDWHITE", AT("Action_Color_ColdWhite")),
    KeyMap("IR44_COLDWHITE2", AT("Action_Color_ColdWhite2")),
    KeyMap("IR44_REDPLUS", AT("Action_Preset_Next")),
    KeyMap("IR44_REDMINUS", AT("Action_Preset_Prev")),
    KeyMap("IR44_GREENPLUS", AT("Action_Palette_Next")),
    KeyMap("IR44_GREENMINUS", AT("Action_Palette_Prev")),
    KeyMap("IR44_BLUEPLUS", AT("Action_Intensity_Up")),
    KeyMap("IR44_BLUEMINUS", AT("Action_Intensity_Down")),
    KeyMap("IR44_QUICK", AT("Action_Speed_Up")),
    KeyMap("IR44_SLOW", AT("Action_Speed_Down")),
    KeyMap("IR44_DIY1", AT("Action_Preset_1")),
    KeyMap("IR44_DIY2", AT("Action_Preset_2")),
    KeyMap("IR44_DIY3", AT("Action_Preset_3")),
    KeyMap("IR44_DIY4", AT("Action_Preset_4")),
    KeyMap("IR44_DIY5", AT("Action_Preset_5")),
    KeyMap("IR44_DIY6", AT("Action_Preset_6")),
    KeyMap("IR44_AUTO", AT("Action_Preset_7")),
    KeyMap("IR44_FLASH", AT("Action_Preset_8")),
    KeyMap("IR44_JUMP3", AT("Action_Bright_25")),
    KeyMap("IR44_JUMP7", AT("Action_Bright_50")),
    KeyMap("IR44_FADE3", AT("Action_Bright_75")),
    KeyMap("IR44_FADE7", AT("Action_Bright_100")),
    NullEntry
  >>

IR21_Actions ==
  <<
    KeyMap("IR21_BRIGHTER", AT("Action_Bright_Up")),
    KeyMap("IR21_DARKER", AT("Action_Bright_Down")),
    KeyMap("IR21_OFF", AT("Action_PowerOff")),
    KeyMap("IR21_ON", AT("Action_PowerOn")),
    KeyMap("IR21_RED", AT("Action_Color_Red")),
    KeyMap("IR21_REDDISH", AT("Action_Color_Reddish")),
    KeyMap("IR21_ORANGE", AT("Action_Color_Orange")),
    KeyMap("IR21_YELLOWISH", AT("Action_Color_Yellowish")),
    KeyMap("IR21_GREEN", AT("Action_Color_Green")),
    KeyMap("IR21_GREENISH", AT("Action_Color_Greenish")),
    KeyMap("IR21_TURQUOISE", AT("Action_Color_Turquoise")),
    KeyMap("IR21_CYAN", AT("Action_Color_Cyan")),
    KeyMap("IR21_BLUE", AT("Action_Color_Blue")),
    KeyMap("IR21_DEEPBLUE", AT("Action_Color_Deepblue")),
    KeyMap("IR21_PURPLE", AT("Action_Color_Purple")),
    KeyMap("IR21_PINK", AT("Action_Color_Pink")),
    KeyMap("IR21_WHITE", AT("Action_Color_White")),
    KeyMap("IR21_FLASH", AT("Action_Preset_1")),
    KeyMap("IR21_STROBE", AT("Action_Preset_2")),
    KeyMap("IR21_FADE", AT("Action_Preset_3")),
    KeyMap("IR21_SMOOTH", AT("Action_Preset_4")),
    NullEntry
  >>

IR6_Actions ==
  <<
    KeyMap("IR6_POWER", AT("Action_PowerToggle")),
    KeyMap("IR6_CHANNEL_UP", AT("Action_Bright_Up")),
    KeyMap("IR6_CHANNEL_DOWN", AT("Action_Bright_Down")),
    KeyMap("IR6_VOLUME_UP", AT("Action_Preset_Next")),
    KeyMap("IR6_VOLUME_DOWN", AT("Action_Color_Rotate")),
    KeyMap("IR6_MUTE", AT("Action_Color_White")),
    NullEntry
  >>

IR9_Actions ==
  <<
    KeyMap("IR9_POWER", AT("Action_PowerToggle")),
    KeyMap("IR9_A", AT("Action_Preset_1")),
    KeyMap("IR9_B", AT("Action_Preset_2")),
    KeyMap("IR9_C", AT("Action_Preset_3")),
    KeyMap("IR9_UP", AT("Action_Preset_Next")),
    KeyMap("IR9_DOWN", AT("Action_Bright_Down")),
    KeyMap("IR9_LEFT", AT("Action_Speed_Up")),
    KeyMap("IR9_RIGHT", AT("Action_Speed_Down")),
    KeyMap("IR9_SELECT", AT("Action_Preset_Next")),
    NullEntry
  >>

Squeezebox_Actions ==
  <<
    KeyMap("IR_SQUEEZEBOX_NOW_PLAYING", AT("Action_Bright_Down")),
    KeyMap("IR_SQUEEZEBOX_SIZE", AT("Action_PowerToggle")),
    KeyMap("IR_SQUEEZEBOX_BRIGHTNESS", AT("Action_Bright_Up")),
    KeyMap("IR_SQUEEZEBOX_1", AT("Action_Preset_1")),
    KeyMap("IR_SQUEEZEBOX_2", AT("Action_Preset_2")),
    KeyMap("IR_SQUEEZEBOX_3", AT("Action_Preset_3")),
    KeyMap("IR_SQUEEZEBOX_4", AT("Action_Preset_4")),
    KeyMap("IR_SQUEEZEBOX_5", AT("Action_Preset_5")),
    KeyMap("IR_SQUEEZEBOX_6", AT("Action_Preset_6")),
    KeyMap("IR_SQUEEZEBOX_7", AT("Action_Preset_7")),
    KeyMap("IR_SQUEEZEBOX_8", AT("Action_Preset_8")),
    KeyMap("IR_SQUEEZEBOX_9", AT("Action_Preset_9")),
    KeyMap("IR_SQUEEZEBOX_0", AT("Action_Preset_10")),
    KeyMap("IR_SQUEEZEBOX_ARROW_DOWN", AT("Action_Speed_Down")),
    KeyMap("IR_SQUEEZEBOX_ARROW_UP", AT("Action_Speed_Up")),
    KeyMap("IR_SQUEEZEBOX_ARROW_LEFT", AT("Action_Intensity_Down")),
    KeyMap("IR_SQUEEZEBOX_ARROW_RIGHT", AT("Action_Intensity_Up")),
    KeyMap("IR_SQUEEZEBOX_BROWSE", AT("Action_Bright_25")),
    KeyMap("IR_SQUEEZEBOX_SHUFFLE", AT("Action_Bright_50")),
    KeyMap("IR_SQUEEZEBOX_REPEAT", AT("Action_Bright_75")),
    NullEntry
  >>

Roku_Express_Actions ==
  <<
    KeyMap("IR_ROKU_BACK", AT("Action_PowerOff")),
    KeyMap("IR_ROKU_HOME", AT("Action_PowerOn")),
    KeyMap("IR_ROKU_UP", AT("Action_Bright_Up")),
    KeyMap("IR_ROKU_DOWN", AT("Action_Bright_Down")),
    KeyMap("IR_ROKU_RIGHT", AT("Action_Speed_Up")),
    KeyMap("IR_ROKU_LEFT", AT("Action_Speed_Down")),
    KeyMap("IR_ROKU_REDO", AT("Action_Intensity_Down")),
    KeyMap("IR_ROKU_STAR", AT("Action_Intensity_Up")),
    KeyMap("IR_ROKU_REWIND", AT("Action_Preset_1")),
    KeyMap("IR_ROKU_PLAY", AT("Action_Preset_2")),
    KeyMap("IR_ROKU_FFD", AT("Action_Preset_3")),
    KeyMap("IR_ROKU_NETFLIX", AT("Action_Preset_4")),
    KeyMap("IR_ROKU_ESPN", AT("Action_Preset_5")),
    KeyMap("IR_ROKU_HULU", AT("Action_Preset_6")),
    KeyMap("IR_ROKU_SLING", AT("Action_Preset_7")),
    NullEntry
  >>

\* ------------------------------------------------------------------------
\* enum RemoteType and the buttonActions array
\* ------------------------------------------------------------------------

RemoteTypeEnum ==
  <<
    "Remote_IR_Disabled", "Remote_IR24_Old", "Remote_IR24_CT", "Remote_IR40",
    "Remote_IR44", "Remote_IR21", "Remote_IR6", "Remote_IR9", "Remote_IR24",
    "Remote_Custom", "Remote_Squeezebox", "Remote_Roku_Express"
  >>

ConfigurableRemoteCount == Len(RemoteTypeEnum)

\* The value of the enumerator `name` (enumerators count from 0).
RT(name) == (CHOOSE i \in 1..Len(RemoteTypeEnum) : RemoteTypeEnum[i] = name) - 1

\* Custom_Actions as shipped: the null entry alone.
Custom_Actions_Shipped == << NullEntry >>

\* Custom_Actions as a user may define it ("make a mapping here in the same
\* style"): the shipped one, one with a code given twice, one where two
\* codes share an action.
Custom_Actions_Defined ==
  {
    Custom_Actions_Shipped,
    << KeyMap("CUSTOM_A", AT("Action_Bright_Up")),
       KeyMap("CUSTOM_B", AT("Action_PowerToggle")),
       KeyMap("CUSTOM_A", AT("Action_Color_Red")),
       KeyMap("CUSTOM_B", AT("Action_Preset_10")),
       NullEntry >>,
    << KeyMap("CUSTOM_A", AT("Action_PowerToggle")),
       KeyMap("CUSTOM_B", AT("Action_PowerToggle")),
       NullEntry >>
  }

VARIABLES
  now,                   \* millis()
  irEnabled,             \* the configured RemoteType (a byte)
  Custom_Actions,        \* the KeyMap array of the custom remote
  irrecv,                \* handleIR: static IRrecv*; 0 is the null pointer
  liveDecoders,          \* number of IRrecv objects created and not deleted
  pending,               \* the result the receiver holds for decode()
  irCheckedTime,         \* handleIR: static unsigned long
  lastRepeatableAction,  \* Action::_lastRepeatableAction (an ActionType)
  repeat_count,          \* Action::_repeat_count
  last_action_time,      \* Action::_last_action_time
  ev,                    \* the last handleIR() step: selector, calls made
  lastDecodeAt,          \* clock reading of the last decode(), -1 if none
  lastDispatched,        \* action of the last table hit since the last miss
  quietPolls,            \* decode()s that found nothing since new IRrecv,
                         \* -1 once one found a result or without decoder
  burst,                 \* the receptions of one code in close succession
  results,               \* presetButtonsConfigured: static byte results[]
  presetCall,            \* the last call of presetButtonsConfigured()
  calledFor,             \* the irEnabled values it has been called with
  bri,                   \* the global brightness (a byte)
  effectCurrent,         \* the global effect index (a byte)
  effectPalette,         \* the global palette index (a byte)
  currentPreset,         \* the preset applied last, 0 if none
  presetSelectTime,      \* actionApplyPreset: static unsigned long
  isRgbw,                \* strip.isRgbw
  presetsSaved,          \* the presets that applyPreset() finds stored
  presetApplied          \* the argument of the last applyPreset(), 0 if none

vars ==
  << now, irEnabled, Custom_Actions, irrecv, liveDecoders, pending,
     irCheckedTime, lastRepeatableAction, repeat_count, last_action_time,
     ev, lastDecodeAt, lastDispatched, quietPolls, burst, results,
     presetCall, calledFor, bri, effectCurrent, effectPalette, currentPreset,
     presetSelectTime, isRgbw, presetsSaved, presetApplied >>

\* The statics of presetButtonsConfigured() and what is recorded of its
\* calls.
presetVars == << results, presetCall, calledFor >>

\* The globals that the action functions write, the configuration they
\* read, and what is recorded of applyPreset().
deviceVars ==
  << bri, effectCurrent, effectPalette, currentPreset, presetSelectTime,
     isRgbw, presetsSaved, presetApplied >>

\* What an action function may write.
Globals ==
  [bri |-> bri, effectCurrent |-> effectCurrent,
   effectPalette |-> effectPalette, currentPreset |-> currentPreset,
   presetSelectTime |-> presetSelectTime, results |-> results,
   presetCall |-> presetCall, calledFor |-> calledFor,
   presetApplied |-> presetApplied]

\* The globals become g.
SetGlobals(g) ==
  /\ bri' = g.bri
  /\ effectCurrent' = g.effectCurrent
  /\ effectPalette' = g.effectPalette
  /\ currentPreset' = g.currentPreset
  /\ presetSelectTime' = g.presetSelectTime
  /\ results' = g.results
  /\ presetCall' = g.presetCall
  /\ calledFor' = g.calledFor
  /\ presetApplied' = g.presetApplied

\* const KeyMap* buttonActions[ConfigurableRemoteCount]; entry 0 is the null
\* pointer, which has no entries to read.
buttonActions ==
  <<
    << >>,
    IR24_Old_Actions,
    IR24CT_Actions,
    IR40_Actions,
    IR44_Actions,
    IR21_Actions,
    IR6_Actions,
    IR9_Actions,
    IR24_Actions,
    Custom_Actions,
    Squeezebox_Actions,
    Roku_Express_Actions
  >>

\* buttonActions[irEnabled]
RemoteMapping(selector) == buttonActions[selector + 1]

\* ------------------------------------------------------------------------
\* The decoder (IRrecv) as handleIR() uses it
\* ------------------------------------------------------------------------

\* A 64-bit decode_results.value.
Value(hi, lo) == [hi |-> hi, lo |-> lo]

\* decode() returns false: nothing received.
NoResult == Value(0, "nothing")

\* static_cast<uint32_t>(results.value): the upper 32 bits are dropped.
CastUint32(value) == value.lo

\* ------------------------------------------------------------------------
\* The call log
\* ------------------------------------------------------------------------

Call(fn, arg) == << fn, arg >>

Event(selector, calls) == [sel |-> selector, calls |-> calls]

\* ------------------------------------------------------------------------
\* Action::operator(), Action::repeatLast(), handleIRCode()
\* ------------------------------------------------------------------------

\* The static members of Action.
RepeatState(last, count, time) == [last |-> last, count |-> count, time |-> time]

\* Debounced with a window of 50ms.
Debounced_ShortWindow(actionType, lastTime, t) ==
  /\ ~ActionOf(actionType).is_repeatable
  /\ (t - lastTime) < 50

\* Debounced with <= for <.
Debounced_Inclusive(actionType, lastTime, t) ==
  /\ ~ActionOf(actionType).is_repeatable
  /\ (t - lastTime) <= DebounceMs

\* Debounced without the test of _is_repeatable.
Debounced_IgnoresFlag(actionType, lastTime, t) ==
  (t - lastTime) < DebounceMs

\* !_is_repeatable && (millis() - _last_action_time) < 500
Debounced(actionType, lastTime, t) ==
  /\ ~ActionOf(actionType).is_repeatable
  /\ (t - lastTime) < DebounceMs

\* Perform that notifies before it runs the function.
Perform_NotifyFirst(actionType) ==
  << Call("colorUpdated", "NOTIFIER_CALL_MODE_BUTTON"),
     Call("_action_fn", ActionOf(actionType).action_fn) >>

\* _action_fn(); colorUpdated(NOTIFIER_CALL_MODE_BUTTON);
Perform(actionType) ==
  << Call("_action_fn", ActionOf(actionType).action_fn),
     Call("colorUpdated", "NOTIFIER_CALL_MODE_BUTTON") >>

\* ActionCall that applies the 500ms test before it compares the Action
\* with the one recorded.
ActionCall_DebounceFirst(actionType, rs, t) ==
  LET entered == << Call("Action::operator()",
                         ActionTypeEnum[actionType + 1]) >>
  IN  IF rs.last # NullAction /\ Debounced(actionType, rs.time, t)
      THEN [rs |-> rs, calls |-> entered]
      ELSE IF rs.last = actionType
           THEN [rs |-> RepeatState(rs.last, (rs.count + 1) % Uint8Range, t),
                 calls |-> entered \o Perform(actionType)]
           ELSE [rs |-> RepeatState(actionType, 1, t),
                 calls |-> entered \o Perform(actionType)]

\* Action::operator() of actions[actionType], called at clock reading t with
\* the static members rs: the new static members and the calls made.
ActionCall(actionType, rs, t) ==
  LET entered == << Call("Action::operator()", ActionTypeEnum[actionType + 1]) >>
  IN  IF rs.last = actionType
      THEN IF Debounced(actionType, rs.time, t)
           THEN [rs |-> rs, calls |-> entered]
           ELSE [rs |-> RepeatState(rs.last, (rs.count + 1) % Uint8Range, t),
                 calls |-> entered \o Perform(actionType)]
      ELSE [rs |-> RepeatState(actionType, 1, t),
            calls |-> entered \o Perform(actionType)]

\* repeatLast that takes the null pointer for the first Action.
RepeatLast_Unchecked(rs, t) ==
  ActionCall(IF rs.last = NullAction THEN 0 ELSE rs.last, rs, t)

\* repeatLast that does nothing.
RepeatLast_Nothing(rs, t) == [rs |-> rs, calls |-> << >>]

\* Action::repeatLast()
RepeatLast(rs, t) ==
  IF rs.last # NullAction
  THEN ActionCall(rs.last, rs, t)
  ELSE [rs |-> rs, calls |-> << >>]

\* clearLastRepeatableAction that clears nothing.
ClearLastRepeatableAction_Keeps(rs) == rs

\* Action::clearLastRepeatableAction()
ClearLastRepeatableAction(rs) == RepeatState(NullAction, rs.count, rs.time)

\* FindKeyMap that goes on after a match and keeps the last one.
RECURSIVE FindKeyMap_LastMatch(_, _, _)
FindKeyMap_LastMatch(remoteMapping, keyMap, irCode) ==
  IF remoteMapping[keyMap].irCode = NullCode
  THEN 0
  ELSE LET later == FindKeyMap_LastMatch(remoteMapping, keyMap + 1, irCode)
       IN  IF later # 0
           THEN later
           ELSE IF remoteMapping[keyMap].irCode = irCode THEN keyMap ELSE 0

\* for (keyMap = remoteMapping; keyMap->irCode; ++keyMap)
\*   if (keyMap->irCode == irCode) ...
\* from entry keyMap on: the index of the entry found, 0 when the null entry
\* is reached first.
RECURSIVE FindKeyMap(_, _, _)
FindKeyMap(remoteMapping, keyMap, irCode) ==
  IF remoteMapping[keyMap].irCode = NullCode
  THEN 0
  ELSE IF remoteMapping[keyMap].irCode = irCode
       THEN keyMap
       ELSE FindKeyMap(remoteMapping, keyMap + 1, irCode)

\* handleIRCode(irCode) with irEnabled = selector.
HandleIRCode(irCode, selector, rs, t) ==
  IF irCode = RepeatCode
  THEN LET r == RepeatLast(rs, t)
       IN  [rs |-> r.rs,
            calls |-> << Call("Action::repeatLast", "") >> \o r.calls]
  ELSE LET remoteMapping == RemoteMapping(selector)
           found == FindKeyMap(remoteMapping, 1, irCode)
           scan == << Call("buttonActions", RemoteTypeEnum[selector + 1]) >>
       IN  IF found # 0
           THEN LET r == ActionCall(remoteMapping[found].actionType, rs, t)
                IN  [rs |-> r.rs, calls |-> scan \o r.calls]
           ELSE [rs |-> ClearLastRepeatableAction(rs),
                 calls |-> scan \o
                   << Call("Action::clearLastRepeatableAction", "") >>]

\* ------------------------------------------------------------------------
\* presetButtonsConfigured()
\* ------------------------------------------------------------------------

\* IsPresetButton that takes every preset action, Action_Preset_1 to
\* Action_Preset_10.
IsPresetButton_AnyPreset(keyMap) ==
  /\ keyMap.actionType >= AT("Action_Preset_1")
  /\ keyMap.actionType <= AT("Action_Preset_10")

\* keyMap->actionType >= Action_Preset_10 &&
\* keyMap->actionType <= Action_Preset_10
IsPresetButton(keyMap) ==
  /\ keyMap.actionType >= AT("Action_Preset_10")
  /\ keyMap.actionType <= AT("Action_Preset_10")

\* for (keyMap = remoteMapping; keyMap->irCode; ++keyMap)
\*   if (...) results[irEnabled]++;
\* from entry keyMap on, with the byte results[irEnabled] at `count`.
RECURSIVE CountPresetButtons(_, _, _)
CountPresetButtons(remoteMapping, keyMap, count) ==
  IF remoteMapping[keyMap].irCode = NullCode
  THEN count
  ELSE CountPresetButtons(remoteMapping, keyMap + 1,
                          IF IsPresetButton(remoteMapping[keyMap])
                          THEN (count + 1) % Uint8Range
                          ELSE count)

\* PresetButtonsConfigured without the test of the cached byte.
PresetButtonsConfigured_Uncached(selector, cache) ==
  LET count == CountPresetButtons(RemoteMapping(selector), 1, cache[selector])
  IN  [results |-> [cache EXCEPT ![selector] = count],
       ret |-> count,
       scanned |-> TRUE]

\* presetButtonsConfigured() with irEnabled = selector and the static array
\* results = cache: the array afterwards, the value returned, and whether
\* the KeyMap array was read.
PresetButtonsConfigured(selector, cache) ==
  IF cache[selector] = 0
  THEN LET count == CountPresetButtons(RemoteMapping(selector), 1,
                                       cache[selector])
       IN  [results |-> [cache EXCEPT ![selector] = count],
            ret |-> count,
            scanned |-> TRUE]
  ELSE [results |-> cache, ret |-> cache[selector], scanned |-> FALSE]

\* What is recorded of a call: irEnabled, the value returned, whether the
\* KeyMap array was read, and whether an earlier call had the same irEnabled.
PresetCall(selector, ret, scanned, again) ==
  [sel |-> selector, ret |-> ret, scanned |-> scanned, again |-> again]

\* No call yet.
NoCall == PresetCall(0, 0, FALSE, FALSE)

\* ------------------------------------------------------------------------
\* The action functions and the globals they write
\* ------------------------------------------------------------------------

\* Conversion to uint8_t.
Uint8(n) == n % Uint8Range

\* const byte brightnessSteps[]
brightnessSteps ==
  << 5, 7, 9, 12, 16, 20, 26, 34, 43, 56, 72, 93, 119, 154, 198, 255 >>

numBrightnessSteps == Len(brightnessSteps)

\* IncBrightness that also stops at a level equal to the brightness.
RECURSIVE IncBrightness_NotStrict(_, _)
IncBrightness_NotStrict(destination, index) ==
  IF index > numBrightnessSteps
  THEN destination
  ELSE IF brightnessSteps[index] >= destination
       THEN brightnessSteps[index]
       ELSE IncBrightness_NotStrict(destination, index + 1)

\* incBrightness(): the loop from brightnessSteps[index - 1] upwards; the
\* value of *destination afterwards.
RECURSIVE IncBrightness(_, _)
IncBrightness(destination, index) ==
  IF index > numBrightnessSteps
  THEN destination
  ELSE IF brightnessSteps[index] > destination
       THEN brightnessSteps[index]
       ELSE IncBrightness(destination, index + 1)

\* decBrightness(): the loop from brightnessSteps[index - 1] downwards.
RECURSIVE DecBrightness(_, _)
DecBrightness(destination, index) ==
  IF index < 1
  THEN destination
  ELSE IF brightnessSteps[index] < destination
       THEN brightnessSteps[index]
       ELSE DecBrightness(destination, index - 1)

\* MODE_COUNT of the effect engine.
MODE_COUNT == 118

\* strip.getPaletteCount()
PaletteCount == 56

\* actionChangePreset(offset): effectCurrent afterwards.
ActionChangePreset(effect, offset) == Uint8((effect + offset) % MODE_COUNT)

\* actionChangePalette(offset): effectPalette afterwards.
ActionChangePalette(palette, offset) ==
  Uint8((palette + offset) % PaletteCount)

\* actionApplyPreset: fallbacks[], FX_MODE_STATIC, FX_MODE_TWINKLE,
\* FX_MODE_BREATH, FX_MODE_COLORTWINKLE, FX_MODE_RAINBOW_CYCLE,
\* FX_MODE_RAINBOW, FX_MODE_METEOR_SMOOTH, FX_MODE_FIRE_FLICKER,
\* FX_MODE_PALETTE, FX_MODE_TWINKLEFOX.
fallbacks == << 0, 20, 2, 74, 9, 8, 77, 45, 65, 80 >>

fallback_count == Len(fallbacks)

\* applyPreset(presetNum): whether the preset is stored; a stored preset
\* becomes currentPreset.
ApplyPreset(presetNum) == presetNum \in presetsSaved

\* presetNum == currentPreset && sinceLast > 500 && sinceLast < 20000
SecondPress(presetNum, current, sinceLast) ==
  /\ presetNum = current
  /\ sinceLast > 500
  /\ sinceLast < 20000

\* actionApplyPreset(presetNum) entered at time t with irEnabled = selector
\* and the globals g; presetSelectTime is read from the clock at tEnd.
ActionApplyPreset(presetNum, selector, g, t, tEnd) ==
  LET sinceLast == t - g.presetSelectTime
      second == SecondPress(presetNum, g.currentPreset, sinceLast)
      counted == PresetButtonsConfigured(selector, g.results)
      applied == IF second THEN Uint8(presetNum + counted.ret) ELSE presetNum
      g1 == IF second
            THEN [g EXCEPT
                    !.results = counted.results,
                    !.presetCall = PresetCall(selector, counted.ret,
                                              counted.scanned,
                                              selector \in g.calledFor),
                    !.calledFor = g.calledFor \cup {selector}]
            ELSE g
      g2 == IF ApplyPreset(applied)
            THEN [g1 EXCEPT !.currentPreset = applied]
            ELSE [g1 EXCEPT
                    !.effectPalette = 0,
                    !.effectCurrent =
                      fallbacks[((applied - 1) % fallback_count) + 1]]
  IN  [g2 EXCEPT !.presetApplied = applied, !.presetSelectTime = tEnd]

\* actionApplyPreset1 .. actionApplyPreset10
ApplyPresetFns ==
  << "actionApplyPreset1", "actionApplyPreset2", "actionApplyPreset3",
     "actionApplyPreset4", "actionApplyPreset5", "actionApplyPreset6",
     "actionApplyPreset7", "actionApplyPreset8", "actionApplyPreset9",
     "actionApplyPreset10" >>

\* The functions that call setWhite().
SetWhiteFns ==
  { "actionColorColdwhite", "actionColorColdwhite2",
    "actionColorNeutralWhite", "actionColorWarmWhite",
    "actionColorWarmWhite2" }

\* The action function action_fn run at time t with irEnabled = selector and
\* the globals g: the globals afterwards.  The functions not listed write
\* none of them.
RunActionFn(action_fn, selector, g, t, tEnd) ==
  CASE action_fn = "incBri" ->
         [g EXCEPT !.bri = IncBrightness(g.bri, 1)]
    [] action_fn = "decBri" ->
         [g EXCEPT !.bri = DecBrightness(g.bri, numBrightnessSteps)]
    [] action_fn = "setBri25" -> [g EXCEPT !.bri = 63]
    [] action_fn = "setBri50" -> [g EXCEPT !.bri = 127]
    [] action_fn = "setBri75" -> [g EXCEPT !.bri = 191]
    [] action_fn = "setBri100" -> [g EXCEPT !.bri = 255]
    [] action_fn \in SetWhiteFns ->
         IF isRgbw THEN [g EXCEPT !.effectCurrent = 0] ELSE g
    [] \E n \in 1..Len(ApplyPresetFns) : ApplyPresetFns[n] = action_fn ->
         ActionApplyPreset(
           CHOOSE n \in 1..Len(ApplyPresetFns) : ApplyPresetFns[n] = action_fn,
           selector, g, t, tEnd)
    [] action_fn = "actionIncPreset" ->
         [g EXCEPT !.effectCurrent = ActionChangePreset(g.effectCurrent,
                                                        Uint8(1))]
    [] action_fn = "actionDecPreset" ->
         [g EXCEPT !.effectCurrent = ActionChangePreset(g.effectCurrent,
                                                        Uint8(-1))]
    [] action_fn = "actionIncPalette" ->
         [g EXCEPT !.effectPalette = ActionChangePalette(g.effectPalette,
                                                         Uint8(1))]
    [] action_fn = "actionDecPalette" ->
         [g EXCEPT !.effectPalette = ActionChangePalette(g.effectPalette,
                                                         Uint8(-1))]
    [] OTHER -> g

\* ------------------------------------------------------------------------
\* Reading the call log
\* ------------------------------------------------------------------------

Called(calls, fn) == \E i \in 1..Len(calls) : calls[i][1] = fn

CountCalls(calls, fn) == Cardinality({i \in 1..Len(calls) : calls[i][1] = fn})

\* The argument of the first call of fn.
ArgOf(calls, fn) ==
  calls[CHOOSE i \in 1..Len(calls) :
          /\ calls[i][1] = fn
          /\ \A j \in 1..(i - 1) : calls[j][1] # fn][2]

\* ------------------------------------------------------------------------
\* handleIR()
\* ------------------------------------------------------------------------

\* IrDisabled without the test of the upper end.
IrDisabled_ZeroOnly(selector) == selector = 0

\* irEnabled == 0 || irEnabled >= ConfigurableRemoteCount
IrDisabled(selector) == selector = 0 \/ selector >= ConfigurableRemoteCount

\* RateLimited with an interval of 60ms.
RateLimited_Short(t, checkedTime) == t - checkedTime < 60

\* RateLimited with the operands of the subtraction exchanged.
RateLimited_Reversed(t, checkedTime) == checkedTime - t < PollIntervalMs

\* millis() - irCheckedTime < 120
RateLimited(t, checkedTime) == t - checkedTime < PollIntervalMs

\* The ghost lastDispatched after a step that made `calls`.
Dispatched(calls, old) ==
  IF Called(calls, "Action::operator()") /\ Called(calls, "buttonActions")
  THEN AT(ArgOf(calls, "Action::operator()"))
  ELSE IF Called(calls, "Action::clearLastRepeatableAction")
       THEN NullAction
       ELSE old

\* No reception yet.
NoBurst == [sel |-> 0, code |-> NullCode, fired |-> 0]

\* The number of decode()s without result that counts as several.
Several == 3

\* The ghost quietPolls after a decode() that made `calls`.
QuietAfter(calls, old) ==
  IF old >= 0 /\ ArgOf(calls, "decode") = "false"
  THEN IF old < Several THEN old + 1 ELSE old
  ELSE -1

\* The ghost burst after a decode() that made `calls`, sinceLast after the
\* previous decode(): a code handled less than 500ms after the previous
\* decode(), which found the same code under the same irEnabled, continues
\* the burst; any other code handled starts one; no code handled ends it.
\* fired counts the action functions run in the burst, up to 2.
BurstAfter(calls, selector, old, sinceLast) ==
  IF ~Called(calls, "handleIRCode")
  THEN NoBurst
  ELSE LET code == ArgOf(calls, "handleIRCode")
           ran == IF Called(calls, "_action_fn") THEN 1 ELSE 0
           before == IF /\ old.sel = selector
                        /\ old.code = code
                        /\ sinceLast < DebounceMs
                     THEN old.fired
                     ELSE 0
       IN  [sel |-> selector, code |-> code,
            fired |-> IF before + ran > 2 THEN 2 ELSE before + ran]

\* handleIR_Disabled that keeps the decoder.
handleIR_Disabled_Keeps ==
  /\ IrDisabled(irEnabled)
  /\ ev' = Event(irEnabled, << >>)
  /\ UNCHANGED << now, irEnabled, Custom_Actions, irrecv, liveDecoders,
                  pending, irCheckedTime, lastRepeatableAction, repeat_count,
                  last_action_time, lastDecodeAt, lastDispatched, presetVars,
                  deviceVars >>
  /\ UNCHANGED << quietPolls, burst >>

\* if IR not enabled; ensure irrecv is null and exit
handleIR_Disabled ==
  /\ IrDisabled(irEnabled)
  /\ IF irrecv # 0
     THEN /\ irrecv' = 0
          /\ liveDecoders' = liveDecoders - 1
          /\ pending' = NoResult
          /\ ev' = Event(irEnabled,
                         << Call("disableIRIn", ""), Call("delete", "") >>)
     ELSE /\ UNCHANGED << irrecv, liveDecoders, pending >>
          /\ ev' = Event(irEnabled, << >>)
  /\ UNCHANGED << now, irEnabled, Custom_Actions, irCheckedTime,
                  lastRepeatableAction, repeat_count, last_action_time,
                  lastDecodeAt, lastDispatched, presetVars,
                  deviceVars >>
  /\ quietPolls' = -1
  /\ burst' = NoBurst

\* handleIR_Acquire without the test of irrecv.
handleIR_Acquire_Unchecked ==
  /\ ~IrDisabled(irEnabled)
  /\ irrecv' = 1
  /\ liveDecoders' = liveDecoders + 1
  /\ pending' = NoResult
  /\ ev' = Event(irEnabled,
                 << Call("new IRrecv", ""), Call("enableIRIn", "") >>)
  /\ UNCHANGED << now, irEnabled, Custom_Actions, irCheckedTime,
                  lastRepeatableAction, repeat_count, last_action_time,
                  lastDecodeAt, lastDispatched, presetVars,
                  deviceVars >>
  /\ quietPolls' = 0
  /\ burst' = NoBurst

\* IR is enabled; if irrecv not initialized; do so and exit
handleIR_Acquire ==
  /\ ~IrDisabled(irEnabled)
  /\ irrecv = 0
  /\ irrecv' = 1
  /\ liveDecoders' = liveDecoders + 1
  /\ pending' = NoResult
  /\ ev' = Event(irEnabled,
                 << Call("new IRrecv", ""), Call("enableIRIn", "") >>)
  /\ UNCHANGED << now, irEnabled, Custom_Actions, irCheckedTime,
                  lastRepeatableAction, repeat_count, last_action_time,
                  lastDecodeAt, lastDispatched, presetVars,
                  deviceVars >>
  /\ quietPolls' = 0
  /\ burst' = NoBurst

\* Only check for a code every 120ms
handleIR_RateLimited ==
  /\ ~IrDisabled(irEnabled)
  /\ irrecv # 0
  /\ RateLimited(now, irCheckedTime)
  /\ ev' = Event(irEnabled, << >>)
  /\ UNCHANGED << now, irEnabled, Custom_Actions, irrecv, liveDecoders,
                  pending, irCheckedTime, lastRepeatableAction, repeat_count,
                  last_action_time, lastDecodeAt, lastDispatched, presetVars,
                  deviceVars >>
  /\ UNCHANGED << quietPolls, burst >>

\* handleIR_Poll that does not test irrecv.
handleIR_Poll_NoDecoderTest(duration) ==
  /\ ~IrDisabled(irEnabled)
  /\ ~RateLimited(now, irCheckedTime)
  /\ irCheckedTime' = now
  /\ lastDecodeAt' = now
  /\ LET rs == RepeatState(lastRepeatableAction, repeat_count, last_action_time)
         irCode == CastUint32(pending)
         result ==
              IF pending = NoResult
              THEN [rs |-> rs, calls |-> << Call("decode", "false") >>]
              ELSE IF irCode = NullCode
                   THEN [rs |-> rs,
                         calls |-> << Call("decode", "true"),
                                      Call("resume", "") >>]
                   ELSE LET h == HandleIRCode(irCode, irEnabled, rs, now)
                        IN  [rs |-> h.rs,
                             calls |-> << Call("decode", "true"),
                                          Call("resume", ""),
                                          Call("handleIRCode", irCode) >>
                                       \o h.calls]
     IN  \E r \in {result} :
         \E ran \in {Called(r.calls, "_action_fn")} :
         /\ duration = 0 \/ ran
         /\ now + duration <= MaxTime
         /\ now' = now + duration
         /\ pending' = NoResult
         /\ lastRepeatableAction' = r.rs.last
         /\ repeat_count' = r.rs.count
         /\ last_action_time' = r.rs.time
         /\ ev' = Event(irEnabled, r.calls)
         /\ lastDispatched' = Dispatched(r.calls, lastDispatched)
         /\ quietPolls' = QuietAfter(r.calls, quietPolls)
         /\ burst' = BurstAfter(r.calls, irEnabled, burst, now - lastDecodeAt)
         /\ \E g \in {IF ran
                     THEN RunActionFn(ArgOf(r.calls, "_action_fn"),
                                      irEnabled, Globals, now,
                                      now + duration)
                     ELSE Globals} :
              SetGlobals(g)
  /\ UNCHANGED << irEnabled, Custom_Actions, irrecv, liveDecoders,
                  isRgbw, presetsSaved >>

\* handleIR_Poll that handles a code of 0 like any other.
handleIR_Poll_NoZeroTest(duration) ==
  /\ ~IrDisabled(irEnabled)
  /\ irrecv # 0
  /\ ~RateLimited(now, irCheckedTime)
  /\ irCheckedTime' = now
  /\ lastDecodeAt' = now
  /\ LET rs == RepeatState(lastRepeatableAction, repeat_count, last_action_time)
         irCode == CastUint32(pending)
         result ==
              IF pending = NoResult
              THEN [rs |-> rs, calls |-> << Call("decode", "false") >>]
              ELSE LET h == HandleIRCode(irCode, irEnabled, rs, now)
                   IN  [rs |-> h.rs,
                        calls |-> << Call("decode", "true"),
                                     Call("resume", ""),
                                     Call("handleIRCode", irCode) >>
                                  \o h.calls]
     IN  \E r \in {result} :
         \E ran \in {Called(r.calls, "_action_fn")} :
         /\ duration = 0 \/ ran
         /\ now + duration <= MaxTime
         /\ now' = now + duration
         /\ pending' = NoResult
         /\ lastRepeatableAction' = r.rs.last
         /\ repeat_count' = r.rs.count
         /\ last_action_time' = r.rs.time
         /\ ev' = Event(irEnabled, r.calls)
         /\ lastDispatched' = Dispatched(r.calls, lastDispatched)
         /\ quietPolls' = QuietAfter(r.calls, quietPolls)
         /\ burst' = BurstAfter(r.calls, irEnabled, burst, now - lastDecodeAt)
         /\ \E g \in {IF ran
                     THEN RunActionFn(ArgOf(r.calls, "_action_fn"),
                                      irEnabled, Globals, now,
                                      now + duration)
                     ELSE Globals} :
              SetGlobals(g)
  /\ UNCHANGED << irEnabled, Custom_Actions, irrecv, liveDecoders,
                  isRgbw, presetsSaved >>

\* check for IR code; handle IR code.  duration is the time the action
\* function and colorUpdated() take when they run.
handleIR_Poll(duration) ==
  /\ ~IrDisabled(irEnabled)
  /\ irrecv # 0
  /\ ~RateLimited(now, irCheckedTime)
  /\ irCheckedTime' = now
  /\ lastDecodeAt' = now
  /\ LET rs == RepeatState(lastRepeatableAction, repeat_count, last_action_time)
         irCode == CastUint32(pending)
         result ==
              IF pending = NoResult
              THEN [rs |-> rs, calls |-> << Call("decode", "false") >>]
              ELSE IF irCode = NullCode
                   THEN [rs |-> rs,
                         calls |-> << Call("decode", "true"),
                                      Call("resume", "") >>]
                   ELSE LET h == HandleIRCode(irCode, irEnabled, rs, now)
                        IN  [rs |-> h.rs,
                             calls |-> << Call("decode", "true"),
                                          Call("resume", ""),
                                          Call("handleIRCode", irCode) >>
                                       \o h.calls]
     IN  \E r \in {result} :
         \E ran \in {Called(r.calls, "_action_fn")} :
         /\ duration = 0 \/ ran
         /\ now + duration <= MaxTime
         /\ now' = now + duration
         /\ pending' = NoResult
         /\ lastRepeatableAction' = r.rs.last
         /\ repeat_count' = r.rs.count
         /\ last_action_time' = r.rs.time
         /\ ev' = Event(irEnabled, r.calls)
         /\ lastDispatched' = Dispatched(r.calls, lastDispatched)
         /\ quietPolls' = QuietAfter(r.calls, quietPolls)
         /\ burst' = BurstAfter(r.calls, irEnabled, burst, now - lastDecodeAt)
         /\ \E g \in {IF ran
                     THEN RunActionFn(ArgOf(r.calls, "_action_fn"),
                                      irEnabled, Globals, now,
                                      now + duration)
                     ELSE Globals} :
              SetGlobals(g)
  /\ UNCHANGED << irEnabled, Custom_Actions, irrecv, liveDecoders,
                  isRgbw, presetsSaved >>

handleIR ==
  \/ handleIR_Disabled
  \/ handleIR_Acquire
  \/ handleIR_RateLimited
  \/ \E duration \in OpDurations : handleIR_Poll(duration)

\* ------------------------------------------------------------------------
\* The environment: the clock, the settings page, the remote control
\* ------------------------------------------------------------------------

\* Time passes.
Tick(ms) ==
  /\ now + ms <= MaxTime
  /\ now' = now + ms
  /\ UNCHANGED << irEnabled, Custom_Actions, irrecv, liveDecoders, pending,
                  irCheckedTime, lastRepeatableAction, repeat_count,
                  last_action_time, ev, lastDecodeAt, lastDispatched, presetVars,
                  deviceVars >>
  /\ UNCHANGED << quietPolls, burst >>

\* The remote type is changed in the settings.
SetIrEnabled(selector) ==
  /\ selector # irEnabled
  /\ irEnabled' = selector
  /\ UNCHANGED << now, Custom_Actions, irrecv, liveDecoders, pending,
                  irCheckedTime, lastRepeatableAction, repeat_count,
                  last_action_time, ev, lastDecodeAt, lastDispatched, presetVars,
                  deviceVars >>
  /\ UNCHANGED << quietPolls, burst >>

\* The enabled receiver captures a transmission; it holds one result until
\* resume().
IRSignal(value) ==
  /\ irrecv # 0
  /\ pending = NoResult
  /\ pending' = value
  /\ UNCHANGED << now, irEnabled, Custom_Actions, irrecv, liveDecoders,
                  irCheckedTime, lastRepeatableAction, repeat_count,
                  last_action_time, ev, lastDecodeAt, lastDispatched, presetVars,
                  deviceVars >>
  /\ UNCHANGED << quietPolls, burst >>

\* ------------------------------------------------------------------------
\* Spec: the whole handler, one remote with a few of its buttons in use
\* ------------------------------------------------------------------------

\* irEnabled as the settings may hold it: disabled, two remotes, and a value
\* past the last RemoteType.
Selectors ==
  { RT("Remote_IR_Disabled"), RT("Remote_IR6"), RT("Remote_Custom"),
    ConfigurableRemoteCount }

\* What the receiver may capture.
SignalValues ==
  { Value(0, "IR6_POWER"), Value(0, "IR6_CHANNEL_UP"), Value(0, "IR6_MUTE"),
    Value(0, RepeatCode), Value(0, "UNMAPPED"), Value(0, NullCode),
    Value(1, NullCode) }

\* The globals of the device in Spec, SpecDispatch and SpecPreset: full
\* brightness, the static effect, no preset stored or applied.
DeviceAtStart ==
  /\ bri = 255
  /\ effectCurrent = 0
  /\ effectPalette = 0
  /\ currentPreset = 0
  /\ presetSelectTime = 0
  /\ isRgbw = FALSE
  /\ presetsSaved = {}
  /\ presetApplied = 0

\* The statics as the program starts.
Init ==
  /\ now = 0
  /\ irEnabled \in Selectors
  /\ Custom_Actions = Custom_Actions_Shipped
  /\ irrecv = 0
  /\ liveDecoders = 0
  /\ pending = NoResult
  /\ irCheckedTime = 0
  /\ lastRepeatableAction = NullAction
  /\ repeat_count = 0
  /\ last_action_time = 0
  /\ ev = Event(irEnabled, << >>)
  /\ lastDecodeAt = -1
  /\ lastDispatched = NullAction
  /\ quietPolls = -1
  /\ burst = NoBurst
  /\ results = [selector \in 0..(ConfigurableRemoteCount - 1) |-> 0]
  /\ presetCall = NoCall
  /\ calledFor = {}
  /\ DeviceAtStart

Next ==
  \/ handleIR
  \/ \E ms \in TickSteps : Tick(ms)
  \/ \E selector \in Selectors : SetIrEnabled(selector)
  \/ \E value \in SignalValues : IRSignal(value)

Spec == Init /\ [][Next]_vars

\* ------------------------------------------------------------------------
\* SpecDispatch: one poll that finds a result, for every remote, every code
\* of its KeyMap array and every content of the statics of Action
\* ------------------------------------------------------------------------

\* The codes of a KeyMap array up to its null entry.
RECURSIVE CodesFrom(_, _)
CodesFrom(remoteMapping, keyMap) ==
  IF remoteMapping[keyMap].irCode = NullCode
  THEN {}
  ELSE {remoteMapping[keyMap].irCode} \cup CodesFrom(remoteMapping, keyMap + 1)

\* Time passed since _last_action_time when the poll runs.
ElapsedChoices == {0, 499, 500}

\* _repeat_count when the poll runs, for a recorded action.
CountChoices == {1, 255}

InitDispatch ==
  /\ now = DebounceMs + PollIntervalMs
  /\ irEnabled \in 1..(ConfigurableRemoteCount - 1)
  /\ Custom_Actions \in
       IF irEnabled = RT("Remote_Custom")
       THEN Custom_Actions_Defined
       ELSE {Custom_Actions_Shipped}
  /\ irrecv = 1
  /\ liveDecoders = 1
  /\ pending \in
       {Value(0, c) : c \in CodesFrom(RemoteMapping(irEnabled), 1)}
       \cup {Value(0, RepeatCode), Value(0, "UNMAPPED"), Value(1, NullCode)}
  /\ irCheckedTime = now - PollIntervalMs
  /\ \/ /\ lastRepeatableAction = NullAction
        /\ repeat_count = 0
        /\ last_action_time = 0
     \/ /\ lastRepeatableAction \in ActionTypes
        /\ repeat_count \in CountChoices
        /\ last_action_time \in {now - e : e \in ElapsedChoices}
  /\ ev = Event(irEnabled, << >>)
  /\ lastDecodeAt = irCheckedTime
  /\ lastDispatched = lastRepeatableAction
  /\ quietPolls = -1
  /\ burst = NoBurst
  /\ results = [selector \in 0..(ConfigurableRemoteCount - 1) |-> 0]
  /\ presetCall = NoCall
  /\ calledFor = {}
  /\ DeviceAtStart

NextDispatch == \E duration \in OpDurations : handleIR_Poll(duration)

SpecDispatch == InitDispatch /\ [][NextDispatch]_vars

\* ------------------------------------------------------------------------
\* SpecPreset: presetButtonsConfigured() called again and again, for every
\* remote
\* ------------------------------------------------------------------------

\* A call of presetButtonsConfigured(); its callers run under handleIR(),
\* past the test of irEnabled.
presetButtonsConfigured ==
  /\ ~IrDisabled(irEnabled)
  /\ LET r == PresetButtonsConfigured(irEnabled, results)
     IN  /\ results' = r.results
         /\ presetCall' = PresetCall(irEnabled, r.ret, r.scanned,
                                     irEnabled \in calledFor)
  /\ calledFor' = calledFor \cup {irEnabled}
  /\ UNCHANGED << now, irEnabled, Custom_Actions, irrecv, liveDecoders,
                  pending, irCheckedTime, lastRepeatableAction, repeat_count,
                  last_action_time, ev, lastDecodeAt, lastDispatched,
                  quietPolls, burst, deviceVars >>

\* The remotes with a KeyMap array.
Remotes == 1..(ConfigurableRemoteCount - 1)

\* The remotes the settings are changed to.
RemotesChosen ==
  { RT("Remote_IR6"), RT("Remote_Squeezebox"), RT("Remote_Custom") }

InitPreset ==
  /\ now = 0
  /\ irEnabled \in Remotes
  /\ Custom_Actions \in Custom_Actions_Defined
  /\ irrecv = 0
  /\ liveDecoders = 0
  /\ pending = NoResult
  /\ irCheckedTime = 0
  /\ lastRepeatableAction = NullAction
  /\ repeat_count = 0
  /\ last_action_time = 0
  /\ ev = Event(irEnabled, << >>)
  /\ lastDecodeAt = -1
  /\ lastDispatched = NullAction
  /\ quietPolls = -1
  /\ burst = NoBurst
  /\ results = [selector \in 0..(ConfigurableRemoteCount - 1) |-> 0]
  /\ presetCall = NoCall
  /\ calledFor = {}
  /\ DeviceAtStart

NextPreset ==
  \/ presetButtonsConfigured
  \/ \E selector \in RemotesChosen : SetIrEnabled(selector)

SpecPreset == InitPreset /\ [][NextPreset]_vars

\* ------------------------------------------------------------------------
\* SpecDevice: one poll that finds the code of a brightness, effect, palette
\* or white button, for every value of the global the button changes
\* ------------------------------------------------------------------------

InitDevice ==
  /\ now = DebounceMs + PollIntervalMs
  /\ Custom_Actions = Custom_Actions_Shipped
  /\ irrecv = 1
  /\ liveDecoders = 1
  /\ irCheckedTime = now - PollIntervalMs
  /\ lastRepeatableAction = NullAction
  /\ repeat_count = 0
  /\ last_action_time = 0
  /\ lastDecodeAt = irCheckedTime
  /\ lastDispatched = NullAction
  /\ quietPolls = -1
  /\ burst = NoBurst
  /\ results = [selector \in 0..(ConfigurableRemoteCount - 1) |-> 0]
  /\ presetCall = NoCall
  /\ calledFor = {}
  /\ currentPreset = 0
  /\ presetSelectTime = 0
  /\ presetsSaved = {}
  /\ presetApplied = 0
  /\ \/ /\ irEnabled = RT("Remote_IR6")
        /\ pending \in {Value(0, "IR6_CHANNEL_UP"), Value(0, "IR6_CHANNEL_DOWN")}
        /\ bri \in 0..(Uint8Range - 1)
        /\ effectCurrent = 0
        /\ effectPalette = 0
        /\ isRgbw = FALSE
     \/ /\ irEnabled = RT("Remote_IR44")
        /\ pending \in {Value(0, "IR44_REDPLUS"), Value(0, "IR44_REDMINUS")}
        /\ bri = 255
        /\ effectCurrent \in 0..(MODE_COUNT - 1)
        /\ effectPalette = 0
        /\ isRgbw = FALSE
     \/ /\ irEnabled = RT("Remote_IR44")
        /\ pending \in {Value(0, "IR44_GREENPLUS"),
                         Value(0, "IR44_GREENMINUS")}
        /\ bri = 255
        /\ effectCurrent = 0
        /\ effectPalette \in 0..(PaletteCount - 1)
        /\ isRgbw = FALSE
     \/ /\ irEnabled = RT("Remote_IR44")
        /\ pending = Value(0, "IR44_COLDWHITE")
        /\ bri = 255
        /\ effectCurrent \in {0, 1}
        /\ effectPalette = 0
        /\ isRgbw \in BOOLEAN
  /\ ev = Event(irEnabled, << >>)

NextDevice == \E duration \in OpDurations : handleIR_Poll(duration)

SpecDevice == InitDevice /\ [][NextDevice]_vars

\* ------------------------------------------------------------------------
\* SpecPresets: the whole handler with remotes whose preset buttons are
\* pressed, and presets stored or not
\* ------------------------------------------------------------------------

\* irEnabled as the settings may hold it: disabled, a remote with four
\* preset buttons, a remote with ten, and a value past the last RemoteType.
SelectorsPresets ==
  { RT("Remote_IR_Disabled"), RT("Remote_IR24"), RT("Remote_Squeezebox"),
    ConfigurableRemoteCount }

\* What the receiver may capture: the buttons of preset 1.
SignalValuesPresets ==
  { Value(0, "IR24_FLASH"), Value(0, "IR_SQUEEZEBOX_1") }

\* The presets that may be stored.
PresetsStored == { {}, {1, 2} }

InitPresets ==
  /\ now = 0
  /\ irEnabled \in SelectorsPresets
  /\ Custom_Actions = Custom_Actions_Shipped
  /\ irrecv = 0
  /\ liveDecoders = 0
  /\ pending = NoResult
  /\ irCheckedTime = 0
  /\ lastRepeatableAction = NullAction
  /\ repeat_count = 0
  /\ last_action_time = 0
  /\ ev = Event(irEnabled, << >>)
  /\ lastDecodeAt = -1
  /\ lastDispatched = NullAction
  /\ quietPolls = -1
  /\ burst = NoBurst
  /\ results = [selector \in 0..(ConfigurableRemoteCount - 1) |-> 0]
  /\ presetCall = NoCall
  /\ calledFor = {}
  /\ bri = 255
  /\ effectCurrent = 0
  /\ effectPalette = 0
  /\ currentPreset = 0
  /\ presetSelectTime = 0
  /\ isRgbw = FALSE
  /\ presetsSaved \in PresetsStored
  /\ presetApplied = 0

NextPresets ==
  \/ handleIR
  \/ \E ms \in TickSteps : Tick(ms)
  \/ \E selector \in SelectorsPresets : SetIrEnabled(selector)
  \/ \E value \in SignalValuesPresets : IRSignal(value)

SpecPresets == InitPresets /\ [][NextPresets]_vars

\* ------------------------------------------------------------------------
\* SpecLive: the whole handler, called again and again while time passes
\* ------------------------------------------------------------------------

\* irEnabled as the settings may hold it: disabled or one remote.
SelectorsLive == { RT("Remote_IR_Disabled"), RT("Remote_IR6") }

\* What the receiver may capture: two buttons of that remote.
SignalValuesLive == { Value(0, "IR6_POWER"), Value(1, "IR6_CHANNEL_UP") }

InitLive ==
  /\ now = 0
  /\ irEnabled \in SelectorsLive
  /\ Custom_Actions = Custom_Actions_Shipped
  /\ irrecv = 0
  /\ liveDecoders = 0
  /\ pending = NoResult
  /\ irCheckedTime = 0
  /\ lastRepeatableAction = NullAction
  /\ repeat_count = 0
  /\ last_action_time = 0
  /\ ev = Event(irEnabled, << >>)
  /\ lastDecodeAt = -1
  /\ lastDispatched = NullAction
  /\ quietPolls = -1
  /\ burst = NoBurst
  /\ results = [selector \in 0..(ConfigurableRemoteCount - 1) |-> 0]
  /\ presetCall = NoCall
  /\ calledFor = {}
  /\ DeviceAtStart

NextLive ==
  \/ handleIR
  \/ \E ms \in TickSteps : Tick(ms)
  \/ \E selector \in SelectorsLive : SetIrEnabled(selector)
  \/ \E value \in SignalValuesLive : IRSignal(value)

\* The main loop calls handleIR() again and again, and millis() advances.
SpecLive ==
  /\ InitLive
  /\ [][NextLive]_vars
  /\ WF_vars(handleIR)
  /\ WF_vars(\E ms \in TickSteps : Tick(ms))

\* ------------------------------------------------------------------------
\* Properties
\* ------------------------------------------------------------------------

\* The step's calls enter Action::operator() of actions[actionType].
Invoked(calls, actionType) ==
  /\ Called(calls, "Action::operator()")
  /\ ArgOf(calls, "Action::operator()") = ActionTypeEnum[actionType + 1]

\* The step's calls run the function of actions[actionType] once, then
\* notify once, and run no other action function.
Executed(calls, actionType) ==
  /\ CountCalls(calls, "_action_fn") = 1
  /\ ArgOf(calls, "_action_fn") = ActionOf(actionType).action_fn
  /\ CountCalls(calls, "colorUpdated") = 1

\* The step's calls run no action function and notify nobody.
NothingDone(calls) ==
  /\ ~Called(calls, "_action_fn")
  /\ ~Called(calls, "colorUpdated")

\* C1: a handleIR() step that invokes the Action recorded as last, when
\* that Action is not repeatable and fewer than 500ms have passed since
\* _last_action_time, calls no action function, emits no notification and
\* leaves _lastRepeatableAction, _repeat_count and _last_action_time as
\* they were.
C1_DebounceSuppresses ==
  [][( /\ lastRepeatableAction # NullAction
       /\ ~ActionOf(lastRepeatableAction).is_repeatable
       /\ now - last_action_time < 500
       /\ handleIR
       /\ Invoked(ev'.calls, lastRepeatableAction) )
     => /\ NothingDone(ev'.calls)
        /\ UNCHANGED << lastRepeatableAction, repeat_count,
                        last_action_time >>]_vars

\* C1 witness: a step invoked the non-repeatable Action recorded as last
\* and did nothing.
C1_Witness ==
  /\ \E a \in ActionTypes :
       /\ Invoked(ev.calls, a)
       /\ ~ActionOf(a).is_repeatable
       /\ lastRepeatableAction = a
  /\ NothingDone(ev.calls)

\* C2: a handleIR() step that invokes the non-repeatable Action recorded as
\* last 500ms or more after _last_action_time (the time its previous run
\* was recorded) runs it again: its function is called and a notification
\* emitted, as they were by the run that recorded it.
C2_RunsAgainAfter500 ==
  [][( /\ lastRepeatableAction # NullAction
       /\ ~ActionOf(lastRepeatableAction).is_repeatable
       /\ now - last_action_time >= 500
       /\ handleIR
       /\ Invoked(ev'.calls, lastRepeatableAction) )
     => /\ Executed(ev'.calls, lastRepeatableAction)
        /\ lastRepeatableAction' = lastRepeatableAction
        /\ last_action_time' = now]_vars

\* C2 witness: the second run of a non-repeatable Action, exactly 500ms
\* after the first.
C2_Witness ==
  /\ \E a \in ActionTypes :
       /\ Executed(ev.calls, a)
       /\ ~ActionOf(a).is_repeatable
       /\ lastRepeatableAction = a
  /\ repeat_count = 2
  /\ last_action_time = 620
  /\ now = last_action_time

\* The Actions the design names repeatable.
NamedRepeatable ==
  { AT("Action_Bright_Up"), AT("Action_Bright_Down"),
    AT("Action_White_Bright_Up"), AT("Action_White_Bright_Down"),
    AT("Action_Speed_Up"), AT("Action_Speed_Down"),
    AT("Action_Intensity_Up"), AT("Action_Intensity_Down") }

\* C3: every step that invokes one of the eight repeatable Actions runs its
\* function once and emits one notification, whatever Action is recorded as
\* last and however long ago (0ms included).
C3_RepeatableNeverSuppressed ==
  \A a \in NamedRepeatable : Invoked(ev.calls, a) => Executed(ev.calls, a)

\* C3 witness: a repeatable Action ran 0ms after its previous run.
C3_Witness ==
  /\ \E a \in NamedRepeatable : Executed(ev.calls, a)
  /\ Called(ev.calls, "Action::repeatLast")
  /\ repeat_count = 2
  /\ now = DebounceMs + PollIntervalMs

\* The index of the null entry of a KeyMap array.
NullIndex(remoteMapping) ==
  CHOOSE n \in 1..Len(remoteMapping) :
    /\ remoteMapping[n].irCode = NullCode
    /\ \A j \in 1..(n - 1) : remoteMapping[j].irCode # NullCode

\* The entries before the null entry that hold irCode.
Matches(remoteMapping, irCode) ==
  {i \in 1..(NullIndex(remoteMapping) - 1) : remoteMapping[i].irCode = irCode}

\* The first of them, in declaration order.
FirstMatch(remoteMapping, irCode) ==
  CHOOSE i \in Matches(remoteMapping, irCode) :
    \A j \in Matches(remoteMapping, irCode) : i <= j

\* C4: when handleIRCode() gets a code other than the repeat code that the
\* KeyMap array of the configured remote holds before its null entry, it
\* invokes the Action of the first entry holding that code, and no other.
C4_FirstMatchInvoked ==
  ( /\ Called(ev.calls, "handleIRCode")
    /\ ArgOf(ev.calls, "handleIRCode") # RepeatCode
    /\ Matches(RemoteMapping(ev.sel), ArgOf(ev.calls, "handleIRCode")) # {} )
  => LET remoteMapping == RemoteMapping(ev.sel)
         first == FirstMatch(remoteMapping, ArgOf(ev.calls, "handleIRCode"))
     IN  /\ CountCalls(ev.calls, "Action::operator()") = 1
         /\ Invoked(ev.calls, remoteMapping[first].actionType)
         /\ Called(ev.calls, "_action_fn") =>
              Executed(ev.calls, remoteMapping[first].actionType)

\* C4 witness: a code held by two entries invoked the Action of the first.
C4_Witness ==
  /\ Called(ev.calls, "handleIRCode")
  /\ Cardinality(Matches(RemoteMapping(ev.sel),
                         ArgOf(ev.calls, "handleIRCode"))) = 2
  /\ Invoked(ev.calls, AT("Action_Bright_Up"))

\* The code handleIRCode() got in the step.
CodeHandled(calls) == ArgOf(calls, "handleIRCode")

\* The step handled a code other than the repeat code that the KeyMap array
\* of its remote does not hold.
LookupMiss(e) ==
  /\ Called(e.calls, "handleIRCode")
  /\ CodeHandled(e.calls) # RepeatCode
  /\ Matches(RemoteMapping(e.sel), CodeHandled(e.calls)) = {}

\* The step handled the repeat code.
RepeatHandled(calls) ==
  /\ Called(calls, "handleIRCode")
  /\ CodeHandled(calls) = RepeatCode

\* C5: a step that handles a code the KeyMap array does not hold invokes no
\* Action, notifies nobody and leaves no Action recorded as last; and the
\* repeat code handled when no table hit came after the last miss runs
\* nothing.
C5_MissClearsLastAction ==
  /\ LookupMiss(ev) =>
       /\ ~Called(ev.calls, "Action::operator()")
       /\ NothingDone(ev.calls)
       /\ lastRepeatableAction = NullAction
  /\ (RepeatHandled(ev.calls) /\ lastDispatched = NullAction) =>
       NothingDone(ev.calls)

\* C5 witness: the repeat code came after a miss that cleared a recorded
\* Action, and ran nothing.
C5_Witness ==
  /\ RepeatHandled(ev.calls)
  /\ NothingDone(ev.calls)
  /\ lastDispatched = NullAction
  /\ repeat_count >= 1

\* C6 as claimed: the repeat code handled after a table hit for Action A,
\* with no miss since, runs A's function and emits a notification.
C6_RepeatCodeRunsLast ==
  (RepeatHandled(ev.calls) /\ lastDispatched # NullAction) =>
    Executed(ev.calls, lastDispatched)

\* C6 amended: the repeat code handled after a table hit for Action A, with
\* no miss since, invokes A without reading the KeyMap array; A's function
\* runs and a notification is emitted unless A is not repeatable and fewer
\* than 500ms have passed since _last_action_time, and then nothing runs.
C6_RepeatCodeInvokesLast ==
  [][( /\ lastDispatched # NullAction
       /\ handleIR
       /\ RepeatHandled(ev'.calls) )
     => /\ Invoked(ev'.calls, lastDispatched)
        /\ CountCalls(ev'.calls, "Action::operator()") = 1
        /\ ~Called(ev'.calls, "buttonActions")
        /\ IF /\ ~ActionOf(lastDispatched).is_repeatable
              /\ now - last_action_time < 500
           THEN NothingDone(ev'.calls)
           ELSE Executed(ev'.calls, lastDispatched)]_vars

\* C6 witness: the repeat code ran the Action of the last table hit again.
C6_Witness ==
  /\ RepeatHandled(ev.calls)
  /\ lastDispatched # NullAction
  /\ Executed(ev.calls, lastDispatched)
  /\ repeat_count = 2

\* C7: the repeat code handled while no Action is recorded as last invokes
\* no Action, calls no function, notifies nobody and leaves
\* _lastRepeatableAction, _repeat_count and _last_action_time as they were.
C7_RepeatCodeWithoutLast ==
  [][( /\ lastRepeatableAction = NullAction
       /\ handleIR
       /\ RepeatHandled(ev'.calls) )
     => /\ ~Called(ev'.calls, "Action::operator()")
        /\ NothingDone(ev'.calls)
        /\ UNCHANGED << lastRepeatableAction, repeat_count,
                        last_action_time >>]_vars

\* C7 witness: the repeat code was handled with nothing recorded, at
\* program start.
C7_Witness ==
  /\ RepeatHandled(ev.calls)
  /\ lastRepeatableAction = NullAction
  /\ repeat_count = 0

\* C8: a handleIR() step makes a decode attempt only 120ms or more after
\* the clock reading of the previous attempt, whatever happened to the
\* decoder in between; so the calls within any window shorter than 120ms
\* make at most one.
C8_DecodeAttemptsApart ==
  [][( /\ Called(ev'.calls, "decode")
       /\ handleIR )
     => /\ CountCalls(ev'.calls, "decode") = 1
        /\ lastDecodeAt = -1 \/ now - lastDecodeAt >= 120]_vars

\* C8 witness: a call less than 120ms after a decode attempt, with the
\* decoder held and the remote enabled, made none.
C8_Witness ==
  /\ lastDecodeAt # -1
  /\ now - lastDecodeAt < 120
  /\ now > lastDecodeAt
  /\ irrecv # 0
  /\ ev.sel \in 1..(ConfigurableRemoteCount - 1)
  /\ ev.calls = << >>

\* C9: a handleIR() step that finds the selector 0 and the decoder held
\* disables and deletes the decoder and makes no decode attempt; a step
\* that finds a valid selector and no decoder creates and enables one and
\* makes no decode attempt.
C9_ReleaseThenWarmUp ==
  [][/\ ( /\ irEnabled = 0
          /\ irrecv # 0
          /\ handleIR )
        => /\ irrecv' = 0
           /\ liveDecoders' = liveDecoders - 1
           /\ ev'.calls = << Call("disableIRIn", ""), Call("delete", "") >>
     /\ ( /\ irEnabled \in 1..(ConfigurableRemoteCount - 1)
          /\ irrecv = 0
          /\ handleIR )
        => /\ irrecv' # 0
           /\ liveDecoders' = liveDecoders + 1
           /\ ev'.calls = << Call("new IRrecv", ""), Call("enableIRIn", "") >>
           /\ UNCHANGED << irCheckedTime, lastDecodeAt >>]_vars

\* C9 witness: the decoder was created again after an earlier one had made
\* a decode attempt and been released.
C9_Witness ==
  /\ ev.calls = << Call("new IRrecv", ""), Call("enableIRIn", "") >>
  /\ lastDecodeAt # -1
  /\ irrecv # 0

\* C10: at most one IRrecv exists, and irrecv points to it; one is created
\* only by a step that starts with irrecv null and a valid selector, and
\* deleted only by a step that starts with irrecv set and a selector that
\* is 0 or past the last remote.
C10_SingleDecoder ==
  /\ [](/\ liveDecoders \in {0, 1}
        /\ liveDecoders = 1 <=> irrecv # 0)
  /\ [][/\ ( \/ liveDecoders' > liveDecoders
             \/ (Called(ev'.calls, "new IRrecv") /\ handleIR) )
           => /\ liveDecoders = 0
              /\ irrecv = 0
              /\ irEnabled \in 1..(ConfigurableRemoteCount - 1)
              /\ liveDecoders' = 1
        /\ ( \/ liveDecoders' < liveDecoders
             \/ (Called(ev'.calls, "delete") /\ handleIR) )
           => /\ liveDecoders = 1
              /\ irrecv # 0
              /\ irEnabled = 0 \/ irEnabled >= ConfigurableRemoteCount
              /\ liveDecoders' = 0]_vars

\* C10 witness: a second decoder was created after the first was deleted.
C10_Witness ==
  /\ Called(ev.calls, "new IRrecv")
  /\ liveDecoders = 1
  /\ lastDecodeAt # -1

\* C11: a handleIR() step that finds irEnabled 0 or past the last remote
\* deletes the decoder when one is held and otherwise does nothing: it
\* makes no decode attempt, reads no KeyMap array, invokes no Action and
\* notifies nobody; the statics of Action and irCheckedTime stay as they
\* were, and a further such step changes nothing.
C11_InvalidSelector ==
  [][( /\ irEnabled = 0 \/ irEnabled >= ConfigurableRemoteCount
       /\ handleIR )
     => /\ ev'.calls = IF irrecv # 0
                       THEN << Call("disableIRIn", ""), Call("delete", "") >>
                       ELSE << >>
        /\ irrecv' = 0
        /\ liveDecoders' = 0
        /\ pending' = NoResult
        /\ UNCHANGED << now, irEnabled, irCheckedTime, lastDecodeAt,
                        lastRepeatableAction, repeat_count,
                        last_action_time >>
        /\ irrecv = 0 => UNCHANGED << irrecv, liveDecoders, pending >>]_vars

\* C11 witness: a step found irEnabled past the last remote and deleted
\* the decoder, which had made a decode attempt.
C11_Witness ==
  /\ ev.sel >= ConfigurableRemoteCount
  /\ ev.calls = << Call("disableIRIn", ""), Call("delete", "") >>
  /\ irrecv = 0
  /\ lastDecodeAt # -1

\* C12: when the decoder was created and several decode attempts since
\* then found nothing, the step whose decode attempt finds a code that the
\* KeyMap array of the remote holds invokes the Action of that entry
\* exactly once, runs its function once, notifies once and leaves it
\* recorded as last.
C12_FirstCodeAfterQuiet ==
  [][( /\ quietPolls >= Several
       /\ pending # NoResult
       /\ pending.lo # RepeatCode
       /\ ~(irEnabled = 0 \/ irEnabled >= ConfigurableRemoteCount)
       /\ Matches(RemoteMapping(irEnabled), pending.lo) # {}
       /\ handleIR
       /\ Called(ev'.calls, "decode") )
     => LET remoteMapping == RemoteMapping(irEnabled)
            first == FirstMatch(remoteMapping, pending.lo)
        IN  /\ CountCalls(ev'.calls, "Action::operator()") = 1
            /\ Executed(ev'.calls, remoteMapping[first].actionType)
            /\ lastRepeatableAction' = remoteMapping[first].actionType]_vars

\* C13: a decode attempt that finds a result whose code is 0 resumes the
\* decoder and drops the result: handleIRCode() is not called, no Action is
\* invoked, nobody is notified, and the statics of Action stay as they were.
C13_ZeroCodeDropped ==
  [][( /\ pending # NoResult
       /\ pending.lo = NullCode
       /\ handleIR
       /\ Called(ev'.calls, "decode") )
     => /\ ev'.calls = << Call("decode", "true"), Call("resume", "") >>
        /\ pending' = NoResult
        /\ UNCHANGED << lastRepeatableAction, repeat_count,
                        last_action_time >>]_vars

\* C13 witness: a result of 0 was dropped while an Action was recorded as
\* last.
C13_Witness ==
  /\ ev.calls = << Call("decode", "true"), Call("resume", "") >>
  /\ lastRepeatableAction # NullAction
  /\ pending = NoResult

\* The place of the first call of fn in the calls of a step.
Pos(calls, fn) ==
  CHOOSE i \in 1..Len(calls) :
    /\ calls[i][1] = fn
    /\ \A j \in 1..(i - 1) : calls[j][1] # fn

\* C14: in a step that runs an action function, the Action is recorded as
\* last and _last_action_time is set to the clock as it was before the
\* function ran; the function is called after Action::operator() is
\* entered, once; and colorUpdated() is called once, after the function,
\* as the last call of the step.
C14_BookkeepingThenOpThenNotify ==
  [][( /\ Called(ev'.calls, "_action_fn")
       /\ handleIR )
     => /\ CountCalls(ev'.calls, "_action_fn") = 1
        /\ CountCalls(ev'.calls, "colorUpdated") = 1
        /\ Pos(ev'.calls, "Action::operator()") < Pos(ev'.calls, "_action_fn")
        /\ Pos(ev'.calls, "_action_fn") < Pos(ev'.calls, "colorUpdated")
        /\ Pos(ev'.calls, "colorUpdated") = Len(ev'.calls)
        /\ lastRepeatableAction' # NullAction
        /\ Invoked(ev'.calls, lastRepeatableAction')
        /\ last_action_time' = now
        /\ now' >= last_action_time']_vars

\* C14 witness: an action function that took 60ms has run, and
\* _last_action_time is the clock from before it.
C14_Witness ==
  /\ Called(ev.calls, "_action_fn")
  /\ ev.calls[Len(ev.calls)] = Call("colorUpdated", "NOTIFIER_CALL_MODE_BUTTON")
  /\ lastDecodeAt = last_action_time
  /\ now = last_action_time + 60

\* C15: _repeat_count is 1 after a step that runs an Action other than the
\* one recorded as last, and one more than before after every step that
\* runs the Action recorded as last, however many such steps came before.
C15_CounterIncreases ==
  [][( /\ Called(ev'.calls, "_action_fn")
       /\ handleIR )
     => IF AT(ArgOf(ev'.calls, "Action::operator()")) = lastRepeatableAction
        THEN repeat_count' = repeat_count + 1
        ELSE repeat_count' = 1]_vars

\* The Action that the KeyMap array of remote selector gives irCode, when it
\* holds it.
ActionFor(selector, irCode) ==
  LET remoteMapping == RemoteMapping(selector)
  IN  remoteMapping[FirstMatch(remoteMapping, irCode)].actionType

\* C16: while decode attempts, each less than 500ms after the one before,
\* find the code of one Action that is not repeatable, under one remote, the
\* function of that Action runs at most once.  (Bursts with a decode attempt
\* that finds nothing between two receptions are not followed.)
C16_OncePerPress ==
  ( /\ burst.fired > 0
    /\ Matches(RemoteMapping(burst.sel), burst.code) # {}
    /\ ~ActionOf(ActionFor(burst.sel, burst.code)).is_repeatable )
  => burst.fired = 1

\* C17: the step that finds irEnabled 0 or past the last remote and deletes
\* the decoder leaves no Action recorded as last; and the repeat code, when
\* it is the first code found since the decoder was created, invokes no
\* Action.
C17_DisableResetsRepeatState ==
  [][/\ ( /\ irEnabled = 0 \/ irEnabled >= ConfigurableRemoteCount
          /\ irrecv # 0
          /\ handleIR )
        => lastRepeatableAction' = NullAction
     /\ ( /\ quietPolls >= 0
          /\ pending # NoResult
          /\ pending.lo = RepeatCode
          /\ handleIR )
        => ~Called(ev'.calls, "Action::operator()")]_vars

\* The entries of a KeyMap array before its null entry whose action is
\* Action_Preset_10.
Preset10Entries(remoteMapping) ==
  {i \in 1..(NullIndex(remoteMapping) - 1) :
     remoteMapping[i].actionType = AT("Action_Preset_10")}

C19_ScansOnce == presetCall.again => ~presetCall.scanned

\* C19: a call of presetButtonsConfigured() after the first for a remote
\* reads the KeyMap array if and only if the array has no Action_Preset_10
\* entry; it then counts 0 again; a first call always reads it.
C19_ScansOnceIfCounted ==
  presetCall # NoCall
  => /\ ~presetCall.again => presetCall.scanned
     /\ presetCall.again =>
          ( presetCall.scanned <=>
              Preset10Entries(RemoteMapping(presetCall.sel)) = {} )
     /\ (presetCall.again /\ presetCall.scanned) => presetCall.ret = 0

\* C19 witness: a later call for a remote without Action_Preset_10 entry
\* read the KeyMap array again.
C19_Witness ==
  /\ presetCall.again
  /\ presetCall.scanned
  /\ presetCall.ret = 0

\* The step is the decode attempt that takes the result the receiver held.
ResultTaken ==
  /\ pending # NoResult
  /\ pending' = NoResult
  /\ lastDecodeAt' = now

\* C20: a step that invokes an Action other than the one recorded as last,
\* or when none is recorded, runs its function once and notifies once,
\* whatever the time since _last_action_time and whether or not the Action
\* is repeatable; it leaves that Action recorded as last, _repeat_count 1
\* and _last_action_time the clock of the step.
C20_FreshAlwaysRuns ==
  [][( /\ Called(ev'.calls, "Action::operator()")
       /\ \/ lastRepeatableAction = NullAction
          \/ ~Invoked(ev'.calls, lastRepeatableAction)
       /\ ResultTaken )
     => /\ lastRepeatableAction' # NullAction
        /\ Invoked(ev'.calls, lastRepeatableAction')
        /\ Executed(ev'.calls, lastRepeatableAction')
        /\ repeat_count' = 1
        /\ last_action_time' = now]_vars

\* C20 witness: an Action that is not repeatable ran as a new one and is
\* recorded with _repeat_count 1.
C20_Witness ==
  /\ \E a \in ActionTypes :
       /\ Executed(ev.calls, a)
       /\ ~ActionOf(a).is_repeatable
       /\ lastRepeatableAction = a
       /\ lastDispatched = a
  /\ repeat_count = 1
  /\ last_action_time = DebounceMs + PollIntervalMs

\* The function that a step ran.
FnRun(calls) == ArgOf(calls, "_action_fn")

\* C22: a step that runs Prev Preset from an effect index e in
\* [0, MODE_COUNT) leaves (e - 1) mod MODE_COUNT, the index that Next Preset
\* leaves e from; a step that runs Prev Palette from a palette index p
\* leaves (p - 1) mod the palette count; the index left is inside
\* [0, count).
C22_PrevStepsBack ==
  [][( /\ Called(ev'.calls, "_action_fn")
       /\ ResultTaken )
     => /\ FnRun(ev'.calls) = "actionDecPreset" =>
             /\ effectCurrent' = (effectCurrent - 1) % MODE_COUNT
             /\ (effectCurrent' + 1) % MODE_COUNT = effectCurrent
        /\ FnRun(ev'.calls) = "actionDecPalette" =>
             effectPalette' = (effectPalette - 1) % PaletteCount
        /\ effectCurrent' \in 0..(MODE_COUNT - 1)
        /\ effectPalette' \in 0..(PaletteCount - 1)]_vars

\* The brightness levels.
BrightnessLevels ==
  {5, 7, 9, 12, 16, 20, 26, 34, 43, 56, 72, 93, 119, 154, 198, 255}

\* The levels above and below a brightness.
LevelsAbove(b) == {l \in BrightnessLevels : l > b}
LevelsBelow(b) == {l \in BrightnessLevels : l < b}

\* The least and the greatest of a set of levels.
Least(S) == CHOOSE l \in S : \A k \in S : l <= k
Greatest(S) == CHOOSE l \in S : \A k \in S : l >= k

\* C23: a step that runs Brightness Up from a brightness b leaves the least
\* level above b, and b when b is 255; a step that runs Brightness Down
\* leaves the greatest level below b, and b when b is 5 or less; Down never
\* takes a brightness of 5 or more below 5; and Down from the brightness
\* that Up leaves from a level below 255 leaves that level.
C23_BrightnessStepping ==
  [][( /\ Called(ev'.calls, "_action_fn")
       /\ ResultTaken )
     => /\ FnRun(ev'.calls) = "incBri" =>
             /\ bri' = IF bri = 255 THEN bri ELSE Least(LevelsAbove(bri))
        /\ FnRun(ev'.calls) = "decBri" =>
             /\ bri' = IF bri <= 5 THEN bri ELSE Greatest(LevelsBelow(bri))
             /\ bri >= 5 => bri' >= 5
             /\ \A b \in BrightnessLevels \ {255} :
                  bri = Least(LevelsAbove(b)) => bri' = b]_vars

\* C23 witness: Brightness Down has run and left the level below 255.
C23_Witness ==
  /\ Called(ev.calls, "_action_fn")
  /\ FnRun(ev.calls) = "decBri"
  /\ bri = 198

\* The entries of a KeyMap array before its null entry whose action is one
\* of Action_Preset_1 .. Action_Preset_10.
PresetEntries(remoteMapping) ==
  {i \in 1..(NullIndex(remoteMapping) - 1) :
     /\ remoteMapping[i].actionType >= AT("Action_Preset_1")
     /\ remoteMapping[i].actionType <= AT("Action_Preset_10")}

\* C21: a step that runs the function of preset button N while N is the
\* current preset, more than 500ms and less than 20s after the last preset
\* selection, applies preset N plus the number of entries of the KeyMap
\* array of the remote whose action is one of Preset 1 .. Preset 10.
C21_SecondPressNextGroup ==
  [][( /\ Called(ev'.calls, "_action_fn")
       /\ ResultTaken
       /\ currentPreset \in 1..Len(ApplyPresetFns)
       /\ FnRun(ev'.calls) = ApplyPresetFns[currentPreset]
       /\ now - presetSelectTime > 500
       /\ now - presetSelectTime < 20000 )
     => presetApplied' =
          currentPreset + Cardinality(PresetEntries(RemoteMapping(irEnabled)))
    ]_vars

\* The remotes with a KeyMap array, [1, ConfigurableRemoteCount).
ValidSelector(selector) ==
  /\ selector >= 1
  /\ selector < ConfigurableRemoteCount

\* C25: a step that makes a decode attempt starts with a decoder held; a
\* step in which handleIRCode() reads buttonActions[irEnabled], or in which
\* presetButtonsConfigured() is called, starts with irEnabled in
\* [1, ConfigurableRemoteCount) and a decoder held, and reads the array of
\* that irEnabled.
C25_TablesReadUnderValidSelector ==
  [][( \/ irCheckedTime' # irCheckedTime
       \/ presetCall' # presetCall
       \/ calledFor' # calledFor
       \/ results' # results )
     => /\ irrecv # 0
        /\ Called(ev'.calls, "decode")
        /\ ( \/ Called(ev'.calls, "buttonActions")
             \/ presetCall' # presetCall
             \/ calledFor' # calledFor
             \/ results' # results )
           => /\ ValidSelector(irEnabled)
              /\ ev'.sel = irEnabled
              /\ Called(ev'.calls, "buttonActions")
              /\ ArgOf(ev'.calls, "buttonActions") =
                   RemoteTypeEnum[irEnabled + 1]
        /\ calledFor' \subseteq calledFor \cup {irEnabled}]_vars

\* C25 witness: a second press of a preset button has been handled:
\* handleIRCode() has read the array of the remote, and the preset action
\* has called presetButtonsConfigured() for the same remote.
C25_Witness ==
  /\ Called(ev.calls, "decode")
  /\ Called(ev.calls, "buttonActions")
  /\ presetCall # NoCall
  /\ presetCall.sel = ev.sel
  /\ presetCall.sel \in calledFor
  /\ ValidSelector(ev.sel)

\* A decode attempt 120ms after irCheckedTime is within the time modelled.
RoomToPoll == irCheckedTime + PollIntervalMs <= MaxTime

\* The last handleIR() step passed the code to handleIRCode().
HandledCode(code) ==
  /\ pending = NoResult
  /\ Called(ev.calls, "resume")
  /\ Called(ev.calls, "handleIRCode")
  /\ ArgOf(ev.calls, "handleIRCode") = code

\* C24: when handleIR() is called again and again and time passes, then
\* unless irEnabled leaves [1, ConfigurableRemoteCount) a decode attempt is
\* made, and a code of a button of the remote that the decoder holds is
\* taken from it and passed to handleIRCode(), as long as 120ms past
\* irCheckedTime lies within the time modelled.
C24_PollerProgress ==
  /\ <>(lastDecodeAt # -1 \/ ~ValidSelector(irEnabled))
  /\ \A value \in SignalValuesLive :
       (pending = value /\ RoomToPoll)
         ~> (HandledCode(value.lo) \/ ~ValidSelector(irEnabled))

\* C24 witness: the decoder held the code of a button of the remote, and a
\* handleIR() step under that remote has passed it to handleIRCode().
C24_Witness ==
  /\ ValidSelector(ev.sel)
  /\ lastDecodeAt # -1
  /\ \E value \in SignalValuesLive : HandledCode(value.lo)
  /\ Called(ev.calls, "_action_fn")

====
